---- MODULE Spec2Model ----
(***************************************************************************)
(* Model of the abstract filesystem executor of DIFFuzzer                  *)
(* (src/src/abstract_fs/executor.rs).                                      *)
(*                                                                         *)
(* A path is a Rust String; it is modelled as a sequence of one-character  *)
(* strings over Alphabet, so that splitting, joining, prefix tests and the *)
(* byte-wise ordering used by sort() are computed, not assumed.            *)
(* The mode argument of mkdir/create is copied verbatim into the recording *)
(* and read by nothing else; it is left out of the operation records.      *)
(***************************************************************************)
EXTENDS Integers, Sequences, FiniteSets, TLC

\* ------------------------------------------------------------- bounds ----
\* longest path string handed to a call
MaxPathLen == 4
\* longest string not starting with '/' handed to a call
MaxRelLen == 2
\* number of calls (returning Ok or not) a caller makes on a fresh executor
MaxCalls == 4
\* number of calls a caller makes after the fixture of test_remove_hardlink_dir
MaxFixtureCalls == 2

\* the characters path strings are built from: the separator and one letter
Alphabet == {"/", "a"}

\* byte value order of the characters ('/' = 0x2F sorts before letters)
CharOrd(c) == IF c = "/" THEN 0 ELSE 1

RECURSIVE StringsOfLen(_)
StringsOfLen(n) ==
    IF n = 0 THEN {<<>>}
    ELSE {Append(s, c) : s \in StringsOfLen(n - 1), c \in Alphabet}

\* every path string a caller may pass: any string up to MaxPathLen that
\* starts with '/', and any string up to MaxRelLen (the empty one included)
Paths ==
    {s \in UNION {StringsOfLen(n) : n \in 0..MaxPathLen} :
        Len(s) <= MaxRelLen \/ s[1] = "/"}

VARIABLES
    dirs,           \* AbstractExecutor.dirs: arena, DirIndex -> Dir
    files,          \* AbstractExecutor.files: arena, FileIndex -> File
    nodes_created,  \* AbstractExecutor.nodes_created
    recording,      \* AbstractExecutor.recording.ops
    workload,       \* the operations the caller asked for that returned Ok, as asked
    all_ok,         \* every call so far returned Ok
    left,           \* number of calls the caller may still make
    ret,            \* the last call: which method, and the tag of what it returned
    replayed,       \* outcome of the last test_replay of the recording, if any
    w,              \* the workload under mutation (smoke_test_mutate's w)
    mutation,       \* the last mutator call: which, its arguments, what it returned
    rx,             \* EventHandler.rx: the channel from the QMP worker thread
    core,           \* the core thread inside reset_events / had_panic_event
    events,         \* what the worker has sent and the core received: in all, and
                    \* since the last returns
    fuzzer,         \* Fuzzer::run: its position, test_count, stats, reports written
    observed,       \* the failing iterations in a row, the traces of the iteration,
                    \* the last detect_errors and do_objective calls
    reducer,        \* Reducer::run / reduce_by_hash: position, workload, index, reports
    reduction,      \* the reducer's input and what its last loop iteration did
    call,           \* a call of a function without state: which, arguments, result
    generator,      \* generate_new: name_idx and what its last sample chose from
    crashes,        \* the crash directory of report_crash and the reports made
    greybox         \* the greybox harness: its position, the mounts in place, its result

vars == <<dirs, files, nodes_created, recording, workload, all_ok, left, ret, replayed,
          w, mutation, rx, core, events, fuzzer, observed, reducer, reduction,
          call, generator, crashes, greybox>>

\* the variables of the reducer
reducer_vars == <<reducer, reduction>>

\* the variables of the reducer, of the command, trace, path, generator and
\* report tools and of the greybox harness
tools_vars == <<reducer, reduction, call, generator, crashes, greybox>>

\* the variables of the abstract executor and of its caller
executor_vars ==
    <<dirs, files, nodes_created, recording, workload, all_ok, left, ret, replayed>>

\* the variables of the VM supervisor's event handler
supervisor_vars == <<rx, core, events>>

\* the variables of the fuzzing loop
fuzzer_vars == <<fuzzer, observed>>

\* the variables of the fuzzing harness
harness_vars == <<rx, core, events, fuzzer, observed>>

\* the variables of the workload mutator
mutator_vars == <<w, mutation>>

\* ------------------------------------------------------ string helpers ----
\* str::rfind('/'): index (1-based) of the last '/', 0 when there is none
rfind(path) ==
    LET hits == {i \in 1..Len(path) : path[i] = "/"}
    IN  IF hits = {} THEN 0 ELSE CHOOSE i \in hits : \A j \in hits : j <= i

\* lexicographic byte order of two strings (String's Ord, used by sort)
StrLeq(a, b) ==
    LET n == IF Len(a) < Len(b) THEN Len(a) ELSE Len(b)
        diff == {i \in 1..n : a[i] # b[i]}
    IN  IF diff = {} THEN Len(a) <= Len(b)
        ELSE LET i == CHOOSE k \in diff : \A j \in diff : k <= j
             IN  CharOrd(a[i]) < CharOrd(b[i])

\* str::split('/'): the pieces between separators, empty pieces included
RECURSIVE SplitFrom(_, _, _)
SplitFrom(path, i, cur) ==
    IF i > Len(path) THEN <<cur>>
    ELSE IF path[i] = "/" THEN <<cur>> \o SplitFrom(path, i + 1, <<>>)
    ELSE SplitFrom(path, i + 1, Append(cur, path[i]))

\* path.split('/').filter(|s| !s.is_empty())
Segments(path) == SelectSeq(SplitFrom(path, 1, <<>>), LAMBDA s : s # <<>>)

\* split_path panics (Option::unwrap on None) when the string holds no '/'
split_path_panics(path) == rfind(path) = 0

\* split_path: (parent, name) around the last '/', parent "" rendered as "/"
split_path(path) ==
    LET split_at == rfind(path)
        parent == SubSeq(path, 1, split_at - 1)
        name == SubSeq(path, split_at + 1, Len(path))
    IN  IF parent = <<>> THEN [parent |-> <<"/">>, name |-> name]
        ELSE [parent |-> parent, name |-> name]

\* ------------------------------------------------------------- values ----
DIR(i) == [kind |-> "DIR", idx |-> i]
FILE(i) == [kind |-> "FILE", idx |-> i]

Ok(v) == [tag |-> "Ok", val |-> v]
Err(t, p) == [tag |-> t, val |-> p]

MKDIR(p) == [kind |-> "MKDIR", path |-> p]
CREATE(p) == [kind |-> "CREATE", path |-> p]
REMOVE(p) == [kind |-> "REMOVE", path |-> p]
HARDLINK(o, n) == [kind |-> "HARDLINK", old_path |-> o, new_path |-> n]

\* Vec as a function on 0..len-1
VecLen(v) == Cardinality(DOMAIN v)
VecPush(v, x) == [i \in 0..VecLen(v) |-> IF i < VecLen(v) THEN v[i] ELSE x]

\* HashMap insert / remove
MapInsert(m, k, v) == [x \in (DOMAIN m) \cup {k} |-> IF x = k THEN v ELSE m[x]]
\* mutant of MapRemove: the entry stays
MapRemove_keeps(m, k) == m
MapRemove(m, k) == [x \in (DOMAIN m) \ {k} |-> m[x]]
EmptyMap == [x \in {} |-> 0]

root_index == 0

\* AbstractExecutor::new
new ==
    [dirs |-> [i \in {0} |-> [parent |-> {}, children |-> EmptyMap]],
     files |-> [i \in {} |-> 0],
     nodes_created |-> 0,
     recording |-> <<>>]

\* the executor the variables hold
self == [dirs |-> dirs, files |-> files,
         nodes_created |-> nodes_created, recording |-> recording]

\* ------------------------------------------------------------ resolve ----
\* mutant of resolve_walk: a file met before the last segment is reported
\* as NotFound
RECURSIVE resolve_walk_no_notadir(_, _, _, _)
resolve_walk_no_notadir(e, segs, last, acc) ==
    IF segs = <<>> THEN Ok(last)
    ELSE LET path == acc \o <<"/">> \o Head(segs)
         IN  IF last.kind # "DIR" THEN Err("NotFound", path)
             ELSE LET dir == e.dirs[last.idx]
                  IN  IF Head(segs) \notin DOMAIN dir.children
                      THEN Err("NotFound", path)
                      ELSE resolve_walk_no_notadir(e, Tail(segs),
                                                   dir.children[Head(segs)], path)

\* the loop of resolve_node over the remaining segments
RECURSIVE resolve_walk(_, _, _, _)
resolve_walk(e, segs, last, acc) ==
    IF segs = <<>> THEN Ok(last)
    ELSE LET path == acc \o <<"/">> \o Head(segs)
         IN  IF last.kind # "DIR" THEN Err("NotADir", path)
             ELSE LET dir == e.dirs[last.idx]
                  IN  IF Head(segs) \notin DOMAIN dir.children
                      THEN Err("NotFound", path)
                      ELSE resolve_walk(e, Tail(segs), dir.children[Head(segs)], path)

resolve_node(e, path) ==
    IF path = <<>> \/ path[1] # "/" \/ (path # <<"/">> /\ path[Len(path)] = "/")
    THEN Err("InvalidPath", path)
    ELSE resolve_walk(e, Segments(path), DIR(root_index), <<>>)

resolve_file(e, path) ==
    LET r == resolve_node(e, path)
    IN  IF r.tag # "Ok" THEN r
        ELSE IF r.val.kind = "FILE" THEN Ok(r.val.idx)
        ELSE Err("NotAFile", path)

resolve_dir(e, path) ==
    LET r == resolve_node(e, path)
    IN  IF r.tag # "Ok" THEN r
        ELSE IF r.val.kind = "DIR" THEN Ok(r.val.idx)
        ELSE Err("NotADir", path)

\* mutant of name_exists: no name is ever found
name_exists_never(e, idx, name) == FALSE

name_exists(e, idx, name) == name \in DOMAIN e.dirs[idx].children

\* names under which directory `parent` lists `node`
NamesOf(e, parent, node) ==
    {n \in DOMAIN e.dirs[parent].children : e.dirs[parent].children[n] = node}

\* resolve_dir_path panics when a directory with a parent is not listed in
\* that parent's children (find(..).unwrap() on None)
RECURSIVE resolve_dir_path_panics(_, _, _)
resolve_dir_path_panics(e, idx, fuel) ==
    IF e.dirs[idx].parent = {} \/ fuel = 0 THEN FALSE
    ELSE LET parent == CHOOSE p \in e.dirs[idx].parent : TRUE
         IN  NamesOf(e, parent, DIR(idx)) = {}
             \/ resolve_dir_path_panics(e, parent, fuel - 1)

\* the segments pushed by the loop of resolve_dir_path, already reversed
RECURSIVE dir_segments(_, _, _)
dir_segments(e, idx, fuel) ==
    IF e.dirs[idx].parent = {} \/ fuel = 0 THEN <<>>
    ELSE LET parent == CHOOSE p \in e.dirs[idx].parent : TRUE
             name == CHOOSE n \in NamesOf(e, parent, DIR(idx)) : TRUE
         IN  Append(dir_segments(e, parent, fuel - 1), name)

\* segments.join("/")
RECURSIVE join(_)
join(segs) ==
    IF segs = <<>> THEN <<>>
    ELSE IF Len(segs) = 1 THEN segs[1]
    ELSE segs[1] \o <<"/">> \o join(Tail(segs))

resolve_dir_path(e, idx) == <<"/">> \o join(dir_segments(e, idx, VecLen(e.dirs)))

make_path(e, parent, name) ==
    IF parent = root_index THEN <<"/">> \o name
    ELSE resolve_dir_path(e, parent) \o <<"/">> \o name

\* ascending sort of the paths of a set of (dir, name) entries
RECURSIVE sort_paths(_, _)
sort_paths(e, entries) ==
    IF entries = {} THEN <<>>
    ELSE LET least == CHOOSE x \in entries : \A y \in entries :
                          StrLeq(make_path(e, x[1], x[2]), make_path(e, y[1], y[2]))
         IN  <<make_path(e, least[1], least[2])>> \o sort_paths(e, entries \ {least})

\* the (dir, name) entries resolve_file_path visits for a file
file_entries(e, file_idx) ==
    UNION {{<<d, n>> : n \in NamesOf(e, d, FILE(file_idx))} :
              d \in e.files[file_idx].parents}

resolve_file_path(e, file_idx) == sort_paths(e, file_entries(e, file_idx))

\* resolve_file_path panics when make_path does for one of the entries
resolve_file_path_panics(e, file_idx) ==
    \E x \in file_entries(e, file_idx) :
        x[1] # root_index /\ resolve_dir_path_panics(e, x[1], VecLen(e.dirs))

resolve_path(e, node) ==
    IF node.kind = "FILE" THEN resolve_file_path(e, node.idx)
    ELSE <<resolve_dir_path(e, node.idx)>>

\* ------------------------------------------------------------ mutators ----
\* what a call yields: the executor afterwards and the value returned
Out(e, r) == [e |-> e, res |-> r]
Panic == [tag |-> "Panic", val |-> <<>>]

push(e, op) == [e EXCEPT !.recording = Append(@, op)]

\* the part of mkdir after its checks: allocate, link, record, count
mkdir_at(e, parent, name) ==
    LET dir_idx == VecLen(e.dirs)
        e1 == [e EXCEPT !.dirs = VecPush(@, [parent |-> {parent},
                                             children |-> EmptyMap])]
        e2 == [e1 EXCEPT !.dirs[parent].children = MapInsert(@, name, DIR(dir_idx))]
    IN  IF resolve_dir_path_panics(e2, dir_idx, VecLen(e2.dirs))
        THEN Out(e2, Panic)
        ELSE
        LET e3 == push(e2, MKDIR(resolve_dir_path(e2, dir_idx)))
        IN  Out([e3 EXCEPT !.nodes_created = @ + 1], Ok(DIR(dir_idx)))

\* mutant of mkdir: the directory is allocated before the name is checked
mkdir_allocates_first(e, path) ==
    IF split_path_panics(path) THEN Out(e, Panic)
    ELSE
    LET sp == split_path(path)
        pr == resolve_dir(e, sp.parent)
    IN  IF pr.tag # "Ok" THEN Out(e, pr)
        ELSE IF name_exists(e, pr.val, sp.name)
        THEN Out([e EXCEPT !.dirs = VecPush(@, [parent |-> {pr.val},
                                                children |-> EmptyMap])],
                 Err("NameAlreadyExists", make_path(e, pr.val, sp.name)))
        ELSE mkdir_at(e, pr.val, sp.name)

mkdir(e, path) ==
    IF split_path_panics(path) THEN Out(e, Panic)
    ELSE
    LET sp == split_path(path)
        pr == resolve_dir(e, sp.parent)
    IN  IF pr.tag # "Ok" THEN Out(e, pr)
        ELSE
        LET parent == pr.val
            name == sp.name
        IN  IF name_exists(e, parent, name)
            THEN IF parent # root_index
                    /\ resolve_dir_path_panics(e, parent, VecLen(e.dirs))
                 THEN Out(e, Panic)
                 ELSE Out(e, Err("NameAlreadyExists", make_path(e, parent, name)))
            ELSE mkdir_at(e, parent, name)

create(e, path) ==
    IF split_path_panics(path) THEN Out(e, Panic)
    ELSE
    LET sp == split_path(path)
        name == sp.name
        pr == resolve_dir(e, sp.parent)
    IN  IF pr.tag # "Ok" THEN Out(e, pr)
        ELSE
        LET parent == pr.val
            panics == parent # root_index
                      /\ resolve_dir_path_panics(e, parent, VecLen(e.dirs))
        IN  IF name_exists(e, parent, name)
            THEN IF panics THEN Out(e, Panic)
                 ELSE Out(e, Err("NameAlreadyExists", make_path(e, parent, name)))
            ELSE
            LET file_idx == VecLen(e.files)
                e1 == [e EXCEPT !.files = VecPush(@, [parents |-> {parent}])]
                e2 == [e1 EXCEPT !.dirs[parent].children =
                                     MapInsert(@, name, FILE(file_idx))]
            IN  IF panics THEN Out(e2, Panic)
                ELSE
                LET e3 == push(e2, CREATE(make_path(e2, parent, name)))
                IN  Out([e3 EXCEPT !.nodes_created = @ + 1], Ok(FILE(file_idx)))

\* the path hardlink records as old_path: resolve_path(node).pop()
last_path(paths) == paths[Len(paths)]

hardlink(e, old_path, new_path) ==
    LET fr == resolve_file(e, old_path)
    IN  IF fr.tag # "Ok" THEN Out(e, fr)
        ELSE IF split_path_panics(new_path) THEN Out(e, Panic)
        ELSE
        LET old_file == fr.val
            sp == split_path(new_path)
            name == sp.name
            pr == resolve_dir(e, sp.parent)
        IN  IF pr.tag # "Ok" THEN Out(e, pr)
            ELSE
            LET parent == pr.val
                panics == parent # root_index
                          /\ resolve_dir_path_panics(e, parent, VecLen(e.dirs))
            IN  IF name_exists(e, parent, name)
                THEN IF panics THEN Out(e, Panic)
                     ELSE Out(e, Err("NameAlreadyExists", make_path(e, parent, name)))
                ELSE IF resolve_file_path_panics(e, old_file)
                        \/ file_entries(e, old_file) = {}
                THEN Out(e, Panic)
                ELSE
                LET recorded_old == last_path(resolve_path(e, FILE(old_file)))
                    e1 == [e EXCEPT !.files[old_file].parents = @ \cup {parent}]
                    e2 == [e1 EXCEPT !.dirs[parent].children =
                                         MapInsert(@, name, FILE(old_file))]
                IN  IF panics THEN Out(e2, Panic)
                    ELSE
                    LET e3 == push(e2, HARDLINK(recorded_old,
                                                make_path(e2, parent, name)))
                    IN  Out([e3 EXCEPT !.nodes_created = @ + 1],
                            Ok(FILE(old_file)))

\* the (parent, node) pairs pushed for the children of a directory, one per
\* name; HashMap iteration order is unspecified and the outcome of the
\* loop below does not depend on it
RECURSIVE entries_of(_, _, _)
entries_of(e, idx, names) ==
    IF names = {} THEN <<>>
    ELSE LET n == CHOOSE x \in names : TRUE
         IN  <<<<idx, e.dirs[idx].children[n]>>>> \o entries_of(e, idx, names \ {n})

\* mutant of detach: children.clear() is forgotten
detach_keeps_children(e, idx) == [e EXCEPT !.dirs[idx].parent = {}]

\* to_remove.parent = None; to_remove.children.clear()
detach(e, idx) ==
    [e EXCEPT !.dirs[idx] = [parent |-> {}, children |-> EmptyMap]]

\* mutant of drain: files met in the subtree keep their parents
RECURSIVE drain_skips_files(_, _)
drain_skips_files(e, queue) ==
    IF queue = <<>> THEN e
    ELSE LET node == Head(queue)[2]
         IN  IF node.kind = "DIR"
             THEN drain_skips_files(detach(e, node.idx),
                        Tail(queue) \o entries_of(e, node.idx,
                                                  DOMAIN e.dirs[node.idx].children))
             ELSE drain_skips_files(e, Tail(queue))

\* the while-let loop of remove over the queue of (parent, node)
RECURSIVE drain(_, _)
drain(e, queue) ==
    IF queue = <<>> THEN e
    ELSE LET parent == Head(queue)[1]
             node == Head(queue)[2]
         IN  IF node.kind = "DIR"
             THEN drain(detach(e, node.idx),
                        Tail(queue) \o entries_of(e, node.idx,
                                                  DOMAIN e.dirs[node.idx].children))
             ELSE drain([e EXCEPT !.files[node.idx].parents = @ \ {parent}],
                        Tail(queue))

remove(e, path) ==
    IF split_path_panics(path) THEN Out(e, Panic)
    ELSE
    LET sp == split_path(path)
        name == sp.name
        nr == resolve_node(e, path)
    IN  IF nr.tag # "Ok" THEN Out(e, nr)
        ELSE
        LET pr == resolve_dir(e, sp.parent)
        IN  IF pr.tag # "Ok" THEN Out(e, pr)
            ELSE
            LET node == nr.val
                parent_idx == pr.val
                e1 == push(e, REMOVE(path))
                e2 == [e1 EXCEPT !.dirs[parent_idx].children = MapRemove(@, name)]
            IN  IF node.kind = "DIR"
                THEN IF node.idx = root_index
                     THEN Out(e2, Err("RootRemovalForbidden", <<>>))
                     ELSE Out(drain(detach(e2, node.idx),
                                    entries_of(e2, node.idx,
                                               DOMAIN e2.dirs[node.idx].children)),
                              Ok(<<>>))
                ELSE
                LET another_exists == NamesOf(e2, parent_idx, node) # {}
                IN  IF another_exists THEN Out(e2, Ok(<<>>))
                    ELSE Out([e2 EXCEPT !.files[node.idx].parents = @ \ {parent_idx}],
                             Ok(<<>>))

\* one operation of a workload applied as replay applies it
apply(e, op) ==
    IF op.kind = "MKDIR" THEN mkdir(e, op.path)
    ELSE IF op.kind = "CREATE" THEN create(e, op.path)
    ELSE IF op.kind = "REMOVE" THEN remove(e, op.path)
    ELSE hardlink(e, op.old_path, op.new_path)

\* replay stops at the first operation that does not return Ok
RECURSIVE replay(_, _)
replay(e, ops) ==
    IF ops = <<>> THEN Out(e, Ok(<<>>))
    ELSE LET o == apply(e, Head(ops))
         IN  IF o.res.tag # "Ok" THEN o ELSE replay(o.e, Tail(ops))

\* the loop of alive: every child of the next queued directory is visited,
\* child directories are queued (children in HashMap order, one order chosen)
RECURSIVE alive_loop(_, _, _, _)
alive_loop(e, queue, visited, fuel) ==
    IF queue = <<>> \/ fuel = 0 THEN visited
    ELSE LET next == Head(queue)
             found == entries_of(e, next, DOMAIN e.dirs[next].children)
             nodes == [i \in 1..Len(found) |-> found[i][2]]
             subdirs == SelectSeq(nodes, LAMBDA n : n.kind = "DIR")
         IN  alive_loop(e, Tail(queue) \o [i \in 1..Len(subdirs) |-> subdirs[i].idx],
                        visited \o nodes, fuel - 1)

\* mutant of alive: only the children of the root are visited
alive_one_level(e) == alive_loop(e, <<root_index>>, <<DIR(root_index)>>, 1)

\* AbstractExecutor::alive
alive(e) == alive_loop(e, <<root_index>>, <<DIR(root_index)>>, VecLen(e.dirs))

\* ------------------------------------------------------------- actions ----
NotReplayed == [done |-> FALSE, tag |-> "none", recording |-> <<>>]

\* no mutator call yet
NoMutation == [op |-> "none", index |-> 0, pick_from |-> {}, tag |-> "None", val |-> <<>>]

\* the mutator is not in use
MutatorIdle == w = <<>> /\ mutation = NoMutation

\* EventHandler::launch: the channel is empty and the worker holds tx
Launched == [queue |-> 0, connected |-> TRUE]

\* the core is in neither reset_events nor had_panic_event
CoreIdle ==
    [pc |-> "idle", panicked |-> FALSE, taken |-> 0,
     result |-> [of |-> "none", tag |-> "none", val |-> FALSE]]

\* the worker has sent nothing
NoEvents ==
    [sent |-> 0, consumed |-> 0, since_reset |-> FALSE, since_return |-> FALSE,
     reset_done |-> FALSE, had_since_reset |-> 0]

\* no event handler in use
SupervisorIdle == rx = Launched /\ core = CoreIdle /\ events = NoEvents

\* Fuzzer::run has not been called
NotFuzzing ==
    [pc |-> "none", test_count |-> [tag |-> "None", val |-> 0], iteration |-> 0,
     stats |-> [executions |-> 0, crashes |-> 0], reports |-> 0, accidents |-> 0]

\* no iteration and no detect_errors or do_objective call yet
NothingObserved ==
    [failed_in_row |-> 0, error |-> "none", fst_trace |-> <<>>, snd_trace |-> <<>>,
     detect_errors |-> [report |-> "none", res |-> "none"],
     do_objective |-> [hash |-> "none", trace |-> "none", report |-> "none",
                       res |-> "none"]]

\* no fuzzing loop in use
FuzzerIdle == fuzzer = NotFuzzing /\ observed = NothingObserved

\* the fuzzing harness is not in use
HarnessIdle == SupervisorIdle /\ FuzzerIdle

\* Reducer::run has not been called
NotReducing ==
    [pc |-> "none", workload |-> <<>>, index |-> 0, old_diff |-> "none",
     saved |-> <<>>, result |-> "none"]

\* no loop iteration of reduce_by_hash yet
NothingReduced ==
    [input |-> <<>>, triggers |-> FALSE, tried |-> 0, runs |-> 0, commits |-> 0,
     last |-> [index |-> 0, removed |-> "none", outcome |-> "none", report |-> "none"]]

\* no reducer in use
ReducerIdle == reducer = NotReducing /\ reduction = NothingReduced

\* no function called
NoCall == [fn |-> "none", args |-> <<>>, result |-> "none"]

\* generate_new not called
NotGenerating ==
    [on |-> FALSE, name_idx |-> 1,
     last |-> [alive |-> <<>>, possible_ops |-> {}, op |-> "none", node |-> DIR(0)]]

\* an empty crash directory and no report made
NoReport ==
    [input |-> <<>>, name |-> "none", existed |-> FALSE, fail |-> 0, res |-> "none"]
NoCrashes ==
    [hash |-> EmptyMap, dirs |-> EmptyMap, reported |-> {}, count |-> 0,
     last |-> NoReport]

\* the greybox harness was not called: nothing is mounted at fs_dir
NoHarness ==
    [pc |-> "none", runs |-> 0, mounted |-> 0, setup_ok |-> FALSE,
     teardown_called |-> FALSE, output |-> "none", result |-> "none"]

\* none of the tools is in use
ToolsIdle ==
    /\ ReducerIdle
    /\ call = NoCall
    /\ generator = NotGenerating
    /\ crashes = NoCrashes /\ greybox = NoHarness

\* a fresh executor, as every test and every replay starts
InitFresh ==
    /\ MutatorIdle /\ HarnessIdle /\ ToolsIdle
    /\ dirs = new.dirs
    /\ files = new.files
    /\ nodes_created = new.nodes_created
    /\ recording = new.recording
    /\ workload = <<>>
    /\ all_ok = TRUE
    /\ left = MaxCalls
    /\ ret = [op |-> "new", tag |-> "Ok"]
    /\ replayed = NotReplayed

\* the calls tests::test_remove_hardlink_dir makes before its remove: a file,
\* a directory in a directory, and a hardlink to the file two levels down
\* (its path is longer than MaxPathLen)
Fixture ==
    <<CREATE(<<"/", "a", "a">>), MKDIR(<<"/", "a">>), MKDIR(<<"/", "a", "/", "a">>),
      HARDLINK(<<"/", "a", "a">>, <<"/", "a", "/", "a", "/", "a">>)>>

\* the executor after those calls
InitFixture ==
    \E out \in {replay(new, Fixture)} :
        /\ MutatorIdle /\ HarnessIdle /\ ToolsIdle
        /\ dirs = out.e.dirs
        /\ files = out.e.files
        /\ nodes_created = out.e.nodes_created
        /\ recording = out.e.recording
        /\ workload = Fixture
        /\ all_ok = (out.res.tag = "Ok")
        /\ left = MaxFixtureCalls
        /\ ret = [op |-> "hardlink", tag |-> out.res.tag]
        /\ replayed = NotReplayed

Init == InitFresh \/ InitFixture

\* a panic unwinds out of the caller and test_replay takes the recording by
\* value: after either the executor takes no further call
Running == ret.tag # "Panic" /\ ~replayed.done /\ left > 0

\* the caller makes one call and sees what it returns
Call(op, asked, out) ==
    /\ dirs' = out.e.dirs
    /\ files' = out.e.files
    /\ nodes_created' = out.e.nodes_created
    /\ recording' = out.e.recording
    /\ ret' = [op |-> op, tag |-> out.res.tag]
    /\ workload' = IF out.res.tag = "Ok" THEN Append(workload, asked) ELSE workload
    /\ all_ok' = (all_ok /\ out.res.tag = "Ok")
    /\ left' = left - 1
    /\ replayed' = NotReplayed
    /\ UNCHANGED mutator_vars
    /\ UNCHANGED harness_vars
    /\ UNCHANGED tools_vars

Mkdir == Running /\ \E path \in Paths : Call("mkdir", MKDIR(path), mkdir(self, path))

Create == Running /\ \E path \in Paths : Call("create", CREATE(path), create(self, path))

Remove == Running /\ \E path \in Paths : Call("remove", REMOVE(path), remove(self, path))

Hardlink ==
    Running /\ \E old_path \in Paths, new_path \in Paths :
        Call("hardlink", HARDLINK(old_path, new_path),
             hardlink(self, old_path, new_path))

\* tests::test_replay: replay the recording on a fresh executor
TestReplay ==
    /\ ret.tag # "Panic"
    /\ ~replayed.done
    /\ LET out == replay(new, recording)
       IN  replayed' = [done |-> TRUE, tag |-> out.res.tag,
                        recording |-> out.e.recording]
    /\ UNCHANGED <<dirs, files, nodes_created, recording, workload, all_ok, left, ret>>
    /\ UNCHANGED mutator_vars
    /\ UNCHANGED harness_vars
    /\ UNCHANGED tools_vars

Next == Mkdir \/ Create \/ Remove \/ Hardlink \/ TestReplay

Spec == Init /\ [][Next]_vars

\* ------------------------------------------------- notions used by claims ----
\* directories alive() reports, the root included
AliveDirs(e) == {n.idx : n \in {alive(e)[i] : i \in 1..Len(alive(e))} \cap
                                {DIR(d) : d \in DOMAIN e.dirs}}

\* the step just taken was a call of method op
Called(op) == left' = left - 1 /\ ret'.op = op

\* the executor after the step
self_next == [dirs |-> dirs', files |-> files',
              nodes_created |-> nodes_created', recording |-> recording']

ErrorTags == {"NameAlreadyExists", "NotFound", "NotADir", "NotAFile", "InvalidPath"}

\* a path written the way the executor records it: "/" followed by its
\* non-empty segments joined by single separators
Canonical(p) == p = <<"/">> \o join(Segments(p))

OpPaths(op) == IF op.kind = "HARDLINK" THEN {op.old_path, op.new_path} ELSE {op.path}

\* C1: after calls that all returned Ok, replaying the recording on a fresh
\* executor succeeds and yields an equal recording
C1_RecordingRoundTrip ==
    (all_ok /\ replayed.done) =>
        (replayed.tag = "Ok" /\ replayed.recording = recording)

\* C2: a workload of canonical non-root paths whose replay succeeded so far
\* (each call is the replay of one more operation of it) is recorded
\* operation for operation as given, HARDLINK old_path included
C2_PrefixRecordingEqualsWorkload ==
    (all_ok /\ \A i \in 1..Len(workload) : \A p \in OpPaths(workload[i]) : Canonical(p))
        => recording = workload

\* C3: remove("/") returns RootRemovalForbidden in every state, and the call
\* that returns it leaves dirs, files and the recording as they were
C3_RootNeverRemoved ==
    [][/\ remove(self, <<"/">>).res.tag = "RootRemovalForbidden"
       /\ (Called("remove") /\ ret'.tag = "RootRemovalForbidden")
              => (dirs' = dirs /\ files' = files /\ recording' = recording)]_vars

\* C5: no call panics, whatever string it is given
C5_NoPanic == ret.tag # "Panic"

\* the last operation the caller asked for that returned Ok
LastAsked == workload[Len(workload)]

IsPrefix(a, b) == Len(a) <= Len(b) /\ SubSeq(b, 1, Len(a)) = a

\* q names something strictly below p (segment-wise)
Below(p, q) == IsPrefix(Segments(p), Segments(q)) /\ Segments(p) # Segments(q)

\* a string resolve_node accepts as a path
ValidPath(q) == resolve_node(new, q).tag # "InvalidPath"

\* C4: a mkdir, create or hardlink that returns an error leaves dirs, files,
\* nodes_created and the recording unchanged; one that returns Ok appends
\* exactly one operation of its kind
C4_ErrorLeavesState ==
    [][\A op \in {"mkdir", "create", "hardlink"} : Called(op) =>
          /\ ret'.tag \in ErrorTags =>
                 /\ dirs' = dirs /\ files' = files
                 /\ nodes_created' = nodes_created /\ recording' = recording
          /\ ret'.tag = "Ok" =>
                 /\ Len(recording') = Len(recording) + 1
                 /\ SubSeq(recording', 1, Len(recording)) = recording
                 /\ recording'[Len(recording')].kind = LastAsked'.kind]_vars

C4_Witness ==
    /\ ret.op = "hardlink" /\ ret.tag = "NameAlreadyExists"
    /\ Len(recording) = 2

\* C6: for every file f, f.parents is exactly the set of directories that
\* list f under some name
C6_ParentsMatchEntries ==
    \A f \in DOMAIN files :
        files[f].parents = {d \in DOMAIN dirs : NamesOf(self, d, FILE(f)) # {}}

\* C7 as stated: exactly one directory of the arena has parent = none, the root
C7_OneParentless ==
    /\ dirs[root_index].parent = {}
    /\ Cardinality({d \in DOMAIN dirs : dirs[d].parent = {}}) = 1

\* C7 amended: the root has parent = none and is the only directory reachable
\* from the root that has; any other directory with parent = none is
\* unreachable from the root and has no children
C7_OneParentlessAlive ==
    /\ dirs[root_index].parent = {}
    /\ \A d \in DOMAIN dirs \ {root_index} :
           dirs[d].parent = {} =>
               d \notin AliveDirs(self) /\ DOMAIN dirs[d].children = {}

C7_Witness ==
    /\ \E d \in DOMAIN dirs \ {root_index} : dirs[d].parent = {}
    /\ \E d \in AliveDirs(self) : d # root_index

\* every (path, node) met walking down from directory idx, whose own path is at
RECURSIVE walk_down(_, _, _, _)
walk_down(e, idx, at, fuel) ==
    IF fuel = 0 THEN {}
    ELSE UNION {
           LET p == IF idx = root_index THEN <<"/">> \o n ELSE at \o <<"/">> \o n
               node == e.dirs[idx].children[n]
           IN  {<<p, node>>} \cup
               (IF node.kind = "DIR" THEN walk_down(e, node.idx, p, fuel - 1) ELSE {})
           : n \in DOMAIN e.dirs[idx].children}

Tree(e) == walk_down(e, root_index, <<"/">>, VecLen(e.dirs))

\* C8: every non-root directory reachable from the root is listed by exactly
\* one (parent, name), that parent is its parent field, and the path spelled
\* by the chain is what resolve_dir_path returns and resolve_node resolves
C8_DirPathUnique ==
    \A d \in AliveDirs(self) \ {root_index} :
        LET links == {x \in (DOMAIN dirs) \X UNION {DOMAIN dirs[q].children : q \in DOMAIN dirs} :
                          x[2] \in NamesOf(self, x[1], DIR(d))}
            chains == {x[1] : x \in {y \in Tree(self) : y[2] = DIR(d)}}
        IN  /\ Cardinality(links) = 1
            /\ \A x \in links : dirs[d].parent = {x[1]}
            /\ Cardinality(chains) = 1
            /\ ~resolve_dir_path_panics(self, d, VecLen(dirs))
            /\ \A p \in chains :
                   /\ resolve_dir_path(self, d) = p
                   /\ resolve_node(self, p) = Ok(DIR(d))

NotFoundAt(e, q) == resolve_node(e, q).tag = "NotFound"

\* C9: after a successful remove(path), path and every valid path strictly
\* below it resolve to NotFound, and a path that resolves to NotFound keeps
\* doing so until a mkdir, create or hardlink returns Ok (resolve_node reads
\* dirs only, so only steps that change dirs are looked at)
C9_RemovedNotFound ==
    [][/\ (Called("remove") /\ ret'.tag = "Ok") =>
              /\ NotFoundAt(self_next, LastAsked'.path)
              /\ \A q \in Paths : (ValidPath(q) /\ Below(LastAsked'.path, q))
                                       => NotFoundAt(self_next, q)
       /\ (dirs' # dirs
             /\ ~(ret'.tag = "Ok" /\ ret'.op \in {"mkdir", "create", "hardlink"})) =>
              \A q \in Paths : NotFoundAt(self, q) => NotFoundAt(self_next, q)]_vars

C9_Witness ==
    /\ ret.op = "remove" /\ ret.tag = "Ok"
    /\ \E i \in 1..Len(recording) - 1 :
           /\ recording[i].kind \in {"MKDIR", "CREATE"}
           /\ Below(LastAsked.path, recording[i].path)

\* the directories of the subtree rooted at directory idx, idx included
RECURSIVE subtree(_, _, _)
subtree(e, idx, fuel) ==
    IF fuel = 0 THEN {idx}
    ELSE {idx} \cup UNION {subtree(e, n.idx, fuel - 1) :
                             n \in {e.dirs[idx].children[k] : k \in DOMAIN e.dirs[idx].children}
                                    \cap {DIR(d) : d \in DOMAIN e.dirs}}

\* C10: a successful remove of a directory leaves every directory of its
\* subtree with parent = none and no children, takes from every file's
\* parents exactly the directories of the subtree, and leaves every file
\* with exactly the paths it had outside the subtree, each still resolving
\* to what it resolved to
C10_SubtreeDetached ==
    [][(Called("remove") /\ ret'.tag = "Ok"
          /\ resolve_node(self, LastAsked'.path).val.kind = "DIR") =>
          LET p == LastAsked'.path
              T == subtree(self, resolve_node(self, p).val.idx, VecLen(dirs))
          IN  /\ \A t \in T : dirs'[t].parent = {} /\ DOMAIN dirs'[t].children = {}
              /\ \A f \in DOMAIN files :
                     /\ files'[f].parents = files[f].parents \ T
                     /\ resolve_file_path(self_next, f) =
                            SelectSeq(resolve_file_path(self, f),
                                      LAMBDA q : ~IsPrefix(Segments(p), Segments(q)))
                     /\ \A i \in 1..Len(resolve_file_path(self_next, f)) :
                            LET q == resolve_file_path(self_next, f)[i]
                            IN  resolve_node(self_next, q) = resolve_node(self, q)]_vars

C10_Witness ==
    /\ ret.op = "remove" /\ ret.tag = "Ok"
    /\ \E i \in 1..Len(recording) - 1 :
           /\ recording[i].kind = "HARDLINK"
           /\ Below(LastAsked.path, recording[i].new_path)
           /\ ~Below(LastAsked.path, recording[i].old_path)
    /\ \E i \in 1..Len(recording) - 1 :
           /\ recording[i].kind = "MKDIR"
           /\ Below(LastAsked.path, recording[i].path)
    /\ \E f \in DOMAIN files : files[f].parents # {}

\* a list of paths in strictly ascending byte order
Ascending(ps) == \A i \in 1..Len(ps) - 1 : StrLeq(ps[i], ps[i + 1]) /\ ps[i] # ps[i + 1]

\* C11: for every file f, resolve_file_path(f) is sorted ascending,
\* has as many elements as f.parents has directories, and each element
\* resolves to FILE(f)
C11_FilePathsPerParent ==
    \A f \in DOMAIN files :
        LET ps == resolve_file_path(self, f)
        IN  /\ ~resolve_file_path_panics(self, f)
            /\ Ascending(ps)
            /\ Len(ps) = Cardinality(files[f].parents)
            /\ \A i \in 1..Len(ps) : resolve_node(self, ps[i]) = Ok(FILE(f))

\* path names an entry of an existing directory: its parent part resolves
\* to a directory that lists its name part
TargetExists(e, path) ==
    /\ ~split_path_panics(path)
    /\ resolve_dir(e, split_path(path).parent).tag = "Ok"
    /\ split_path(path).name \in
           DOMAIN e.dirs[resolve_dir(e, split_path(path).parent).val].children

\* the path of that entry as the executor spells it
TargetPath(e, path) ==
    make_path(e, resolve_dir(e, split_path(path).parent).val, split_path(path).name)

\* the call changed nothing and returned NameAlreadyExists with the target
Rejected(out, e, path) ==
    out = Out(e, Err("NameAlreadyExists", TargetPath(e, path)))

\* C12 as stated: mkdir, create and hardlink (whatever its old path) whose
\* target name exists in the parent directory return NameAlreadyExists
\* carrying the target path and leave every entry as it was (looked at in
\* the states where the caller can still make a call)
C12_ExistingNameRejected ==
    Running => \A path \in Paths : TargetExists(self, path) =>
        /\ Rejected(mkdir(self, path), self, path)
        /\ Rejected(create(self, path), self, path)
        /\ \A old_path \in Paths : Rejected(hardlink(self, old_path, path), self, path)

\* C12 amended: mkdir and create whose target name exists, and hardlink
\* whose old path resolves to a file and whose target name exists, return
\* NameAlreadyExists carrying the target path; a hardlink whose old path
\* does not resolve to a file returns that failure instead; in every case
\* the state, every entry included, is left as it was
C12_ExistingNameKept ==
    Running => \A path \in Paths : TargetExists(self, path) =>
        /\ Rejected(mkdir(self, path), self, path)
        /\ Rejected(create(self, path), self, path)
        /\ \A old_path \in Paths :
               IF resolve_file(self, old_path).tag = "Ok"
               THEN Rejected(hardlink(self, old_path, path), self, path)
               ELSE hardlink(self, old_path, path) = Out(self, resolve_file(self, old_path))

C12_Witness ==
    /\ Running
    /\ ret.op = "create" /\ ret.tag = "NameAlreadyExists"
    /\ \E path \in Paths :
           /\ TargetExists(self, path)
           /\ resolve_dir(self, split_path(path).parent).val # root_index
           /\ \E old_path \in Paths : resolve_file(self, old_path).tag = "Ok"

\* C13: a hardlink(old, new) that returns Ok returns the file old resolved
\* to, allocates no File, adds the parent directory of new to the parents
\* of that file, keeps every path that resolved to the file resolving to
\* it, and makes new resolve to it; a hardlink whose old path names a
\* directory returns NotAFile
C13_HardlinkSameFile ==
    Running => \A old_path \in Paths, new_path \in Paths :
        LET out == hardlink(self, old_path, new_path)
            old == resolve_node(self, old_path)
        IN  /\ out.res.tag = "Ok" =>
                  /\ old.tag = "Ok" /\ old.val.kind = "FILE"
                  /\ out.res.val = old.val
                  /\ VecLen(out.e.files) = VecLen(files)
                  /\ out.e.files[old.val.idx].parents =
                         files[old.val.idx].parents
                             \cup {resolve_dir(self, split_path(new_path).parent).val}
                  /\ \A q \in Paths : resolve_node(self, q) = Ok(old.val)
                                          => resolve_node(out.e, q) = Ok(old.val)
                  /\ resolve_node(out.e, new_path) = Ok(old.val)
            /\ (old.tag = "Ok" /\ old.val.kind = "DIR") =>
                  out = Out(self, Err("NotAFile", old_path))

\* the non-empty segments of a path, read off the string: the maximal runs
\* of characters other than the separator, as (first, last) positions
SegmentRuns(path) ==
    {r \in (1..Len(path)) \X (1..Len(path)) :
        /\ r[1] <= r[2]
        /\ \A k \in r[1]..r[2] : path[k] # "/"
        /\ (r[1] = 1 \/ path[r[1] - 1] = "/")
        /\ (r[2] = Len(path) \/ path[r[2] + 1] = "/")}

\* the i-th of them, from the left
NthSegment(path, i) ==
    LET r == CHOOSE x \in SegmentRuns(path) :
                 Cardinality({y \in SegmentRuns(path) : y[1] < x[1]}) = i - 1
    IN  SubSeq(path, r[1], r[2])

\* the segments of every path of the input set, in order
SegmentsByRuns ==
    [p \in Paths |-> [i \in 1..Cardinality(SegmentRuns(p)) |-> NthSegment(p, i)]]

\* what the walk from the root has reached after each number of segments:
\* a node, or the first of NotFound (segment missing in the directory
\* reached) and NotADir (a file reached with a segment still to go)
Reached(e, path) ==
    LET segs == SegmentsByRuns[path]
        n == Len(segs)
        at[i \in 0..n] ==
            IF i = 0 THEN [tag |-> "Ok", val |-> DIR(root_index)]
            ELSE IF at[i - 1].tag # "Ok" THEN at[i - 1]
            ELSE IF at[i - 1].val.kind = "FILE" THEN [tag |-> "NotADir", val |-> <<>>]
            ELSE IF segs[i] \notin DOMAIN e.dirs[at[i - 1].val.idx].children
            THEN [tag |-> "NotFound", val |-> <<>>]
            ELSE [tag |-> "Ok", val |-> e.dirs[at[i - 1].val.idx].children[segs[i]]]
    IN  at[n]

\* C14: resolve_node(path) returns InvalidPath exactly when path is empty,
\* does not start with the separator, or ends with it without being "/";
\* otherwise it walks the non-empty segments from the root and returns
\* NotFound at a missing segment, NotADir at a file with segments to go,
\* and else the node of the last segment (the root for "/"); it is a read
\* of dirs only
C14_ResolveNodeWalk ==
    \A path \in Paths :
        LET r == resolve_node(self, path)
            invalid == \/ path = <<>>
                       \/ path[1] # "/"
                       \/ (path[Len(path)] = "/" /\ path # <<"/">>)
        IN  /\ r.tag \in {"Ok", "InvalidPath", "NotFound", "NotADir"}
            /\ (r.tag = "InvalidPath") <=> invalid
            /\ ~invalid =>
                   /\ r.tag = Reached(self, path).tag
                   /\ r.tag = "Ok" => r.val = Reached(self, path).val
            /\ resolve_node([self EXCEPT !.files = <<>>, !.recording = <<>>,
                                         !.nodes_created = 0], path) = r

C14_Witness ==
    /\ resolve_node(self, <<"/", "a">>).tag = "Ok"
    /\ resolve_node(self, <<"/", "a">>).val.kind = "FILE"
    /\ resolve_node(self, <<"/", "a", "/", "a">>).tag = "NotADir"
    /\ resolve_node(self, <<"/", "a", "a", "a">>).tag = "NotFound"
    /\ resolve_node(self, <<"/", "/", "a", "a">>).tag = "Ok"
    /\ resolve_node(self, <<"/", "/", "a", "a">>).val.kind = "DIR"
    /\ resolve_node(self, <<"/", "a", "a", "/">>).tag = "InvalidPath"
    /\ resolve_node(self, <<"/">>) = Ok(DIR(root_index))

\* ------------------------------------------------------------ mutator ----
\* number of samples generate_new is asked for, at most
MaxGenerate == 3

\* length a workload is let grow to by insert
MaxWorkloadLen == 4

OperationKinds == {"MKDIR", "CREATE", "REMOVE", "HARDLINK"}

\* Option<Workload>; a panic unwinds out of the mutator
None == [tag |-> "None", val |-> <<>>]
Some(ops) == [tag |-> "Some", val |-> ops]
Unwound == [tag |-> "Panic", val |-> <<>>]

\* the paths the generator builds: a directory it found alive and a name
GenPaths == {p \in Paths : Canonical(p) /\ p # <<"/">>}

\* the operations the generator can sample
GenOps ==
    {MKDIR(p) : p \in GenPaths} \cup {CREATE(p) : p \in GenPaths}
        \cup {REMOVE(p) : p \in GenPaths}
        \cup {HARDLINK(o, n) : o \in GenPaths, n \in GenPaths}

\* the legal instances of the kinds of pick_from in the state of e
LegalOps(e, pick_from) ==
    {op \in GenOps : op.kind \in pick_from /\ apply(e, op).res.tag = "Ok"}

\* append_one with the sample op: the operation is applied to the executor
append_one(e, op) == apply(e, op).e

\* ops.remove(index), index counted from 0
VecRemove(ops, index) ==
    [i \in 1..Len(ops) - 1 |-> IF i <= index THEN ops[i] ELSE ops[i + 1]]

\* what a mutator returns after its last replay
returned(out) ==
    IF out.res.tag = "Panic" THEN Unwound
    ELSE IF out.res.tag # "Ok" THEN None
    ELSE Some(out.e.recording)

\* mutant of mutator::remove: the shortened workload is returned unreplayed
mutator_remove_unchecked(workload_, index) == Some(VecRemove(workload_, index))

\* mutator::remove
mutator_remove(workload_, index) ==
    returned(replay(new, VecRemove(workload_, index)))

\* workload.ops.split_at(index)
split_at(ops, index) ==
    [before |-> SubSeq(ops, 1, index), after |-> SubSeq(ops, index + 1, Len(ops))]

\* mutator::insert up to the call of the generator: the executor after the
\* replay of the operations before index
insert_before(workload_, index) == replay(new, split_at(workload_, index).before)

\* mutator::insert from the call of the generator on, op being its sample
insert_from(e, workload_, index, op) ==
    returned(replay(append_one(e, op), split_at(workload_, index).after))

\* the executor plays no part once generate_new has returned
ExecutorFresh(l) ==
    /\ dirs = new.dirs /\ files = new.files
    /\ nodes_created = new.nodes_created /\ recording = new.recording
    /\ workload = <<>> /\ all_ok = TRUE /\ left = l
    /\ ret = [op |-> "new", tag |-> "Ok"] /\ replayed = NotReplayed

\* smoke_test_mutate: generate_new(rng, n) starts on a fresh executor
InitMutator ==
    /\ \E n \in 0..MaxGenerate : ExecutorFresh(n)
    /\ w = <<>>
    /\ mutation = [NoMutation EXCEPT !.op = "generate_new"]
    /\ HarnessIdle /\ ToolsIdle

\* one sample of generate_new: a legal operation applied to its executor
Generate ==
    /\ mutation.op = "generate_new" /\ left > 0
    /\ \E op \in LegalOps(self, OperationKinds) :
           LET e == append_one(self, op)
           IN  /\ dirs' = e.dirs /\ files' = e.files
               /\ nodes_created' = e.nodes_created /\ recording' = e.recording
    /\ left' = left - 1
    /\ UNCHANGED <<workload, all_ok, ret, replayed, w, mutation>>
    /\ UNCHANGED harness_vars
    /\ UNCHANGED tools_vars

\* generate_new returns the recording
Generated ==
    /\ mutation.op = "generate_new" /\ left = 0
    /\ w' = recording
    /\ mutation' = [NoMutation EXCEPT !.op = "generated"]
    /\ dirs' = new.dirs /\ files' = new.files
    /\ nodes_created' = new.nodes_created /\ recording' = new.recording
    /\ UNCHANGED <<workload, all_ok, left, ret, replayed>>
    /\ UNCHANGED harness_vars
    /\ UNCHANGED tools_vars

\* the caller keeps the workload a mutator returned
Mutated(op, index, pick_from, r) ==
    /\ mutation' = [op |-> op, index |-> index, pick_from |-> pick_from,
                     tag |-> r.tag, val |-> r.val]
    /\ w' = IF r.tag = "Some" THEN r.val ELSE w
    /\ UNCHANGED <<dirs, files, nodes_created, recording, workload, all_ok, left,
                   ret, replayed>>
    /\ UNCHANGED harness_vars
    /\ UNCHANGED tools_vars

Mutating == mutation.op \notin {"none", "generate_new"} /\ mutation.tag # "Panic"

\* remove(&w, index) for an index of w
MutatorRemove ==
    /\ Mutating
    /\ \E index \in 0..Len(w) - 1 :
           Mutated("remove", index, {}, mutator_remove(w, index))

\* the pick_from sets callers pass: one kind (tests::test_append) or
\* OperationKind::all() (smoke_test_mutate)
PickSets == {{k} : k \in OperationKinds} \cup {OperationKinds}

\* insert(rng, &w, index, pick_from): None when the replay of the part
\* before index fails; otherwise the generator samples one of the legal
\* operations of a kind of pick_from and the part from index on is replayed
MutatorInsert ==
    /\ Mutating /\ Len(w) < MaxWorkloadLen
    /\ \E index \in 0..Len(w) :
           \E before \in {insert_before(w, index)} :
               IF before.res.tag # "Ok"
               THEN \E pick_from \in PickSets :
                        Mutated("insert", index, pick_from, returned(before))
               ELSE \E op \in LegalOps(before.e, OperationKinds) :
                        \E r \in {insert_from(before.e, w, index, op)} :
                            \E pick_from \in {s \in PickSets : op.kind \in s} :
                                Mutated("insert", index, pick_from, r)

NextMutator == Generate \/ Generated \/ MutatorRemove \/ MutatorInsert

SpecMutator == InitMutator /\ [][NextMutator]_vars

\* the step just taken was a call of the mutator op
MutatorCalled(op) == mutation'.op = op /\ mutator_vars' # mutator_vars

\* C15: remove(W, i) returns none when the replay of W with index i deleted
\* fails on a fresh executor, and otherwise returns exactly W with index i
\* deleted
C15_RemoveReturnsRest ==
    [][MutatorCalled("remove") =>
          LET rest == VecRemove(w, mutation'.index)
          IN  IF replay(new, rest).res.tag # "Ok"
              THEN mutation'.tag = "None"
              ELSE mutation'.tag = "Some" /\ mutation'.val = rest]_vars

C17_InsertReturnsSpliced ==
    [][MutatorCalled("insert") =>
          LET i == mutation'.index
              parts == split_at(w, i)
              before == replay(new, parts.before)
              val == mutation'.val
          IN  /\ mutation'.tag \in {"None", "Some"}
              /\ mutation'.tag = "None" =>
                     \/ before.res.tag # "Ok"
                     \/ \E op \in LegalOps(before.e, mutation'.pick_from) :
                            replay(append_one(before.e, op), parts.after).res.tag # "Ok"
              /\ mutation'.tag = "Some" =>
                     /\ before.res.tag = "Ok"
                     /\ Len(val) = Len(w) + 1
                     /\ SubSeq(val, 1, i) = parts.before
                     /\ val[i + 1].kind \in mutation'.pick_from
                     /\ SubSeq(val, i + 2, Len(val)) = parts.after
                     /\ replay(append_one(before.e, val[i + 1]), parts.after).res.tag = "Ok"]_vars

\* -------------------------------------------------- supervisor events ----
\* number of events the QMP worker thread sends, at most
MaxEvents == 3

\* mutant of try_recv: Disconnected is reported as soon as the sender is gone
try_recv_sender_first(r) ==
    IF ~r.connected THEN "Disconnected" ELSE IF r.queue > 0 THEN "Ok" ELSE "Empty"

\* rx.try_recv(): a queued event is received first; Disconnected is reported
\* only when the queue is empty and the sender is gone
try_recv(r) ==
    IF r.queue > 0 THEN "Ok" ELSE IF r.connected THEN "Empty" ELSE "Disconnected"

\* QemuSupervisor::launch has returned: the worker thread runs, the core has
\* called nothing yet
InitSupervisor ==
    /\ ExecutorFresh(0) /\ MutatorIdle /\ FuzzerIdle /\ ToolsIdle
    /\ rx = Launched
    /\ core = CoreIdle
    /\ events = NoEvents

\* the worker thread reads a QMP message with an "event" key: tx.send(())
WorkerSend ==
    /\ rx.connected /\ events.sent < MaxEvents
    /\ rx' = [rx EXCEPT !.queue = @ + 1]
    /\ events' = [events EXCEPT !.sent = @ + 1, !.since_reset = TRUE,
                                !.since_return = TRUE]
    /\ UNCHANGED <<core, executor_vars, mutator_vars, tools_vars, fuzzer_vars>>

\* the worker thread fails to deserialize a message: unwrap panics, the
\* thread ends and tx is dropped
WorkerPanic ==
    /\ rx.connected
    /\ rx' = [rx EXCEPT !.connected = FALSE]
    /\ UNCHANGED <<core, events, executor_vars, mutator_vars, tools_vars, fuzzer_vars>>

\* the core calls a method of the supervisor
CoreCalls(method) ==
    /\ core' = [pc |-> method, panicked |-> FALSE, taken |-> 0,
                result |-> [of |-> "none", tag |-> "none", val |-> FALSE]]
    /\ UNCHANGED <<rx, events, executor_vars, mutator_vars, tools_vars, fuzzer_vars>>

\* the method the core is in returns
CoreReturns(tag, val) ==
    core' = [pc |-> "idle", panicked |-> core.panicked, taken |-> core.taken,
             result |-> [of |-> core.pc, tag |-> tag, val |-> val]]

\* reset_events()
ResetEvents ==
    /\ core.pc = "idle"
    /\ CoreCalls("reset")

\* EventHandler::reset: Ok(()) => {}
ResetRecv ==
    /\ core.pc = "reset" /\ try_recv(rx) = "Ok"
    /\ rx' = [rx EXCEPT !.queue = @ - 1]
    /\ core' = [core EXCEPT !.taken = @ + 1]
    /\ events' = [events EXCEPT !.consumed = @ + 1]
    /\ UNCHANGED <<executor_vars, mutator_vars, tools_vars, fuzzer_vars>>

\* EventHandler::reset: Empty => break, then Ok(())
ResetEmpty ==
    /\ core.pc = "reset" /\ try_recv(rx) = "Empty"
    /\ CoreReturns("Ok", FALSE)
    /\ events' = [events EXCEPT !.since_reset = FALSE, !.since_return = FALSE,
                                !.reset_done = TRUE, !.had_since_reset = 0]
    /\ UNCHANGED <<rx, executor_vars, mutator_vars, tools_vars, fuzzer_vars>>

\* EventHandler::reset: Disconnected => bail!
ResetDisconnected ==
    /\ core.pc = "reset" /\ try_recv(rx) = "Disconnected"
    /\ CoreReturns("Err", FALSE)
    /\ UNCHANGED <<rx, events, executor_vars, mutator_vars, tools_vars, fuzzer_vars>>

\* had_panic_event(): let mut panicked = false
HadPanicEvent ==
    /\ core.pc = "idle"
    /\ CoreCalls("had")

\* mutant of HadRecv: the event is received and the flag is left as it was
HadRecvForgets ==
    /\ core.pc = "had" /\ try_recv(rx) = "Ok"
    /\ rx' = [rx EXCEPT !.queue = @ - 1]
    /\ core' = [core EXCEPT !.taken = @ + 1]
    /\ events' = [events EXCEPT !.consumed = @ + 1]
    /\ UNCHANGED <<executor_vars, mutator_vars, tools_vars, fuzzer_vars>>

\* EventHandler::had_panic_event: Ok(()) => panicked = true
HadRecv ==
    /\ core.pc = "had" /\ try_recv(rx) = "Ok"
    /\ rx' = [rx EXCEPT !.queue = @ - 1]
    /\ core' = [core EXCEPT !.panicked = TRUE, !.taken = @ + 1]
    /\ events' = [events EXCEPT !.consumed = @ + 1]
    /\ UNCHANGED <<executor_vars, mutator_vars, tools_vars, fuzzer_vars>>

\* EventHandler::had_panic_event: Empty => break, then Ok(panicked)
HadEmpty ==
    /\ core.pc = "had" /\ try_recv(rx) = "Empty"
    /\ CoreReturns("Ok", core.panicked)
    /\ events' = [events EXCEPT !.since_return = FALSE,
                                !.had_since_reset = IF @ < 2 THEN @ + 1 ELSE @]
    /\ UNCHANGED <<rx, executor_vars, mutator_vars, tools_vars, fuzzer_vars>>

\* EventHandler::had_panic_event: Disconnected => bail!
HadDisconnected ==
    /\ core.pc = "had" /\ try_recv(rx) = "Disconnected"
    /\ CoreReturns("Err", FALSE)
    /\ UNCHANGED <<rx, events, executor_vars, mutator_vars, tools_vars, fuzzer_vars>>

NextSupervisor ==
    \/ WorkerSend \/ WorkerPanic
    \/ ResetEvents \/ ResetRecv \/ ResetEmpty \/ ResetDisconnected
    \/ HadPanicEvent \/ HadRecv \/ HadEmpty \/ HadDisconnected

SpecSupervisor == InitSupervisor /\ [][NextSupervisor]_vars

\* the step just taken is the return of had_panic_event
HadReturned == core.pc = "had" /\ core'.pc = "idle"

\* C18: every call of had_panic_event made after a reset_events, a second call
\* with no reset in between included, returns true iff at least one event
\* was enqueued after that reset_events returned
C18_SinceReset ==
    [][(HadReturned /\ events.reset_done /\ core'.result.tag = "Ok") =>
          (core'.result.val <=> events.since_reset)]_vars

\* C18 as amended: had_panic_event returns true iff at least one event was
\* enqueued since reset_events or had_panic_event last found the queue empty
\* and returned (or since launch); it fails exactly when the worker is gone
\* and the queue is empty
C18_SinceLastReturn ==
    [][HadReturned =>
          /\ core'.result.of = "had"
          /\ core'.result.tag \in {"Ok", "Err"}
          /\ core'.result.tag = "Ok" => (core'.result.val <=> events.since_return)
          /\ core'.result.tag = "Err" <=> (~rx.connected /\ rx.queue = 0)]_vars

\* a second call with no reset in between has returned false although an
\* event arrived since the reset
C18_Witness ==
    /\ core.pc = "idle"
    /\ core.result = [of |-> "had", tag |-> "Ok", val |-> FALSE]
    /\ events.reset_done /\ events.since_reset
    /\ events.had_since_reset = 2

\* ------------------------------------------------------- fuzzing loop ----
\* largest test_count given to Fuzzer::run
MaxTestCount == 4

\* number of iterations followed when test_count is None
MaxIterations == 4

\* Option<u64>
NoCount == [tag |-> "None", val |-> 0]
SomeCount(n) == [tag |-> "Some", val |-> n]

\* the steps of DuoSingleFuzzer::fuzz_one that return an error with `?`
\* before detect_errors is called
FuzzOneErrors ==
    {"read testcase", "parse json", "compile_test", "run_harness", "parse_trace"}

\* what an objective's is_interesting returns: anyhow::Result<bool>
IsInteresting == {"true", "false", "Err"}

\* Runner::report_diff writes one report directory, or fails
report_diff(runner, outcome) ==
    IF outcome = "Ok" THEN [runner EXCEPT !.reports = @ + 1] ELSE runner

\* Runner::report_diff called with the accidents path
report_accident(runner, outcome) ==
    IF outcome = "Ok" THEN [runner EXCEPT !.accidents = @ + 1] ELSE runner

\* a row of a trace
TraceRow(index, command, return_code, errno) ==
    [index |-> index, command |-> command, return_code |-> return_code,
     errno |-> errno]

\* the errno token of a call that succeeded, Success(0)
Success == <<"S">>

\* Trace::errors: the rows whose errno is not Success(0)
errors(trace) == SelectSeq(trace, LAMBDA row : row.errno # Success)

\* Trace::has_errors
has_errors(trace) == errors(trace) # <<>>

\* TraceObjective::is_interesting: the projections (command, return code,
\* errno) differ at some position, or the lengths differ
trace_differs(fst, snd) ==
    \/ Len(fst) # Len(snd)
    \/ \E i \in 1..Len(fst) :
           <<fst[i].command, fst[i].return_code, fst[i].errno>>
               # <<snd[i].command, snd[i].return_code, snd[i].errno>>

\* the traces the two harness runs of an iteration leave: one without
\* error rows and two with
FuzzTraces ==
    {<<TraceRow(1, <<"f">>, 0, Success)>>,
     <<TraceRow(1, <<"f">>, 0, Success), TraceRow(2, <<"b">>, 0 - 1, <<"E">>)>>,
     <<TraceRow(1, <<"f">>, 0 - 1, <<"E">>)>>}

\* mutant of detect_errors: the accident is reported as a crash
detect_errors_as_crash(runner, fst_trace, snd_trace, report) ==
    IF has_errors(fst_trace) /\ has_errors(snd_trace)
    THEN IF report = "Err"
         THEN [runner |-> runner, res |-> "Err"]
         ELSE [runner |-> [report_diff(runner, report) EXCEPT !.stats.crashes = @ + 1],
               res |-> "true"]
    ELSE [runner |-> runner, res |-> "false"]

\* Fuzzer::detect_errors, report being what report_diff returns
detect_errors(runner, fst_trace, snd_trace, report) ==
    IF has_errors(fst_trace) /\ has_errors(snd_trace)
    THEN IF report = "Err"
         THEN [runner |-> report_accident(runner, report), res |-> "Err"]
         ELSE [runner |-> report_accident(runner, report), res |-> "true"]
    ELSE [runner |-> runner, res |-> "false"]

\* mutant of do_objective: only the hash objective is looked at
do_objective_hash_only(runner, hash, trace, report) ==
    IF hash = "Err" \/ trace = "Err" THEN [runner |-> runner, res |-> "Err"]
    ELSE IF hash = "true"
    THEN IF report = "Err"
         THEN [runner |-> report_diff(runner, report), res |-> "Err"]
         ELSE [runner |-> [report_diff(runner, report) EXCEPT !.stats.crashes = @ + 1],
               res |-> "true"]
    ELSE [runner |-> runner, res |-> "false"]

\* Fuzzer::do_objective, hash and trace being what the two objectives
\* return and report what report_diff returns
do_objective(runner, hash, trace, report) ==
    IF hash = "Err" \/ trace = "Err" THEN [runner |-> runner, res |-> "Err"]
    ELSE IF trace = "true" \/ hash = "true"
    THEN IF report = "Err"
         THEN [runner |-> report_diff(runner, report), res |-> "Err"]
         ELSE [runner |-> [report_diff(runner, report) EXCEPT !.stats.crashes = @ + 1],
               res |-> "true"]
    ELSE [runner |-> runner, res |-> "false"]

\* Fuzzer::run(test_count) is at the head of its loop
InitFuzzer ==
    /\ ExecutorFresh(0) /\ MutatorIdle /\ SupervisorIdle /\ ToolsIdle
    /\ \E test_count \in {NoCount} \cup {SomeCount(n) : n \in 0..MaxTestCount} :
           fuzzer = [NotFuzzing EXCEPT !.pc = "loop", !.test_count = test_count]
    /\ observed = NothingObserved

\* the loop of run has a further iteration to make
MoreIterations ==
    IF fuzzer.test_count.tag = "None" THEN fuzzer.iteration < MaxIterations
    ELSE fuzzer.iteration < fuzzer.test_count.val

\* runs() calls fuzz_one, which fails at one of its steps, or has the two
\* traces parsed and reaches detect_errors
FuzzOne ==
    /\ fuzzer.pc = "loop" /\ MoreIterations
    /\ \/ \E error \in FuzzOneErrors :
              /\ fuzzer' = [fuzzer EXCEPT !.pc = "fuzz_one_err"]
              /\ observed' = [observed EXCEPT !.error = error]
       \/ \E fst_trace \in FuzzTraces, snd_trace \in FuzzTraces :
              /\ fuzzer' = [fuzzer EXCEPT !.pc = "detect_errors"]
              /\ observed' = [observed EXCEPT !.error = "none",
                                              !.fst_trace = fst_trace,
                                              !.snd_trace = snd_trace]
    /\ UNCHANGED <<executor_vars, mutator_vars, tools_vars, supervisor_vars>>

\* fuzz_one calls detect_errors: it returns its error, or Ok(()) when an
\* accident was reported, or goes on to do_objective
DetectErrors ==
    /\ fuzzer.pc = "detect_errors"
    /\ \E report \in IF has_errors(observed.fst_trace) /\ has_errors(observed.snd_trace)
                     THEN {"Ok", "Err"} ELSE {"none"} :
       \E out \in {detect_errors(fuzzer, observed.fst_trace, observed.snd_trace,
                                 report)} :
           /\ fuzzer' = [out.runner EXCEPT
                             !.pc = CASE out.res = "Err" -> "fuzz_one_err"
                                      [] out.res = "true" -> "fuzz_one_ok"
                                      [] OTHER -> "do_objective"]
           /\ observed' = [observed EXCEPT
                               !.error = IF out.res = "Err" THEN "detect_errors"
                                         ELSE "none",
                               !.detect_errors = [report |-> report, res |-> out.res]]
    /\ UNCHANGED <<executor_vars, mutator_vars, tools_vars, supervisor_vars>>

\* fuzz_one calls do_objective and returns its error, or Ok(())
DoObjective ==
    /\ fuzzer.pc = "do_objective"
    /\ \E hash \in IsInteresting :
       \E trace \in IF hash = "Err" THEN {"none"}
                    ELSE {IF trace_differs(observed.fst_trace, observed.snd_trace)
                          THEN "true" ELSE "false", "Err"} :
       \E report \in IF trace \in {"none", "Err"} \/ (hash = "false" /\ trace = "false")
                     THEN {"none"} ELSE {"Ok", "Err"} :
       \E out \in {do_objective(fuzzer, hash, IF trace = "none" THEN "Err" ELSE trace,
                                report)} :
           /\ fuzzer' = [out.runner EXCEPT
                             !.pc = IF out.res = "Err" THEN "fuzz_one_err"
                                    ELSE "fuzz_one_ok"]
           /\ observed' = [observed EXCEPT
                               !.error = IF out.res = "Err" THEN "do_objective"
                                         ELSE "none",
                               !.do_objective = [hash |-> hash, trace |-> trace,
                                                 report |-> report, res |-> out.res]]
    /\ UNCHANGED <<executor_vars, mutator_vars, tools_vars, supervisor_vars>>

\* runs(): fuzz_one returned Ok, executions += 1, false is returned and run
\* goes round its loop
RunsOk ==
    /\ fuzzer.pc = "fuzz_one_ok"
    /\ fuzzer' = [fuzzer EXCEPT !.pc = "loop", !.iteration = @ + 1,
                                !.stats.executions = @ + 1]
    /\ observed' = [observed EXCEPT !.failed_in_row = 0]
    /\ UNCHANGED <<executor_vars, mutator_vars, tools_vars, supervisor_vars>>

\* mutant of RunsErr: the failed call is counted as an execution
RunsErrCounted ==
    /\ fuzzer.pc = "fuzz_one_err"
    /\ fuzzer' = [fuzzer EXCEPT !.pc = "returned", !.iteration = @ + 1,
                                !.stats.executions = @ + 1]
    /\ observed' = [observed EXCEPT !.failed_in_row = @ + 1]
    /\ UNCHANGED <<executor_vars, mutator_vars, tools_vars, supervisor_vars>>

\* runs(): fuzz_one returned Err, the error is logged and true is returned;
\* run returns
RunsErr ==
    /\ fuzzer.pc = "fuzz_one_err"
    /\ fuzzer' = [fuzzer EXCEPT !.pc = "returned", !.iteration = @ + 1]
    /\ observed' = [observed EXCEPT !.failed_in_row = @ + 1]
    /\ UNCHANGED <<executor_vars, mutator_vars, tools_vars, supervisor_vars>>

\* the for loop of run has made test_count iterations
LoopEnd ==
    /\ fuzzer.pc = "loop" /\ fuzzer.test_count.tag = "Some" /\ ~MoreIterations
    /\ fuzzer' = [fuzzer EXCEPT !.pc = "returned"]
    /\ UNCHANGED <<observed, executor_vars, mutator_vars, tools_vars, supervisor_vars>>

NextFuzzer == FuzzOne \/ DetectErrors \/ DoObjective \/ RunsOk \/ RunsErr \/ LoopEnd

SpecFuzzer == InitFuzzer /\ [][NextFuzzer]_vars

\* C19: a failing iteration aborts only that iteration: run returns only
\* when its test_count iterations are made or after three failing
\* iterations in a row
C19_AbortAfterThree ==
    fuzzer.pc = "returned" =>
        \/ observed.failed_in_row >= 3
        \/ fuzzer.test_count.tag = "Some" /\ fuzzer.iteration = fuzzer.test_count.val

\* the step just taken is a call of do_objective in which both objectives
\* returned a value
ObjectivesDone ==
    /\ fuzzer.pc = "do_objective" /\ fuzzer'.pc # "do_objective"
    /\ observed'.do_objective.hash \in {"true", "false"}
    /\ observed'.do_objective.trace \in {"true", "false"}

\* C20: when the trace or the dash objective is interesting do_objective
\* writes exactly one report, adds 1 to stats.crashes and returns true; when
\* neither is, nothing is written, stats.crashes is unchanged and false is
\* returned
C20_ReportsIffInteresting ==
    [][ObjectivesDone =>
          LET o == observed'.do_objective
          IN  IF o.trace = "true" \/ o.hash = "true"
              THEN /\ fuzzer'.reports = fuzzer.reports + 1
                   /\ fuzzer'.stats.crashes = fuzzer.stats.crashes + 1
                   /\ o.res = "true"
              ELSE /\ fuzzer'.reports = fuzzer.reports
                   /\ fuzzer'.stats.crashes = fuzzer.stats.crashes
                   /\ o.res = "false"]_vars

\* C20 as amended: as C20 when report_diff succeeds; when report_diff fails,
\* or an objective fails, the error is returned and stats.crashes is
\* unchanged, and nothing is written when an objective fails; executions is
\* never touched
C20_ReportsUnlessError ==
    [][(fuzzer.pc = "do_objective" /\ fuzzer'.pc # "do_objective") =>
          LET o == observed'.do_objective
              both == o.hash \in {"true", "false"} /\ o.trace \in {"true", "false"}
              interesting == o.trace = "true" \/ o.hash = "true"
          IN  /\ fuzzer'.stats.executions = fuzzer.stats.executions
              /\ ~both =>
                     /\ o.res = "Err"
                     /\ fuzzer'.reports = fuzzer.reports
                     /\ fuzzer'.stats.crashes = fuzzer.stats.crashes
              /\ (both /\ ~interesting) =>
                     /\ o.res = "false"
                     /\ fuzzer'.reports = fuzzer.reports
                     /\ fuzzer'.stats.crashes = fuzzer.stats.crashes
              /\ (both /\ interesting /\ o.report = "Ok") =>
                     /\ o.res = "true"
                     /\ fuzzer'.reports = fuzzer.reports + 1
                     /\ fuzzer'.stats.crashes = fuzzer.stats.crashes + 1
              /\ (both /\ interesting /\ o.report = "Err") =>
                     /\ o.res = "Err"
                     /\ fuzzer'.stats.crashes = fuzzer.stats.crashes]_vars

\* after a divergence was reported, a report of a second one (seen by the
\* trace objective alone) failed to be written
C20_Witness ==
    /\ fuzzer.pc = "fuzz_one_err"
    /\ fuzzer.stats.crashes = 1 /\ fuzzer.reports = 1
    /\ observed.do_objective =
           [hash |-> "false", trace |-> "true", report |-> "Err", res |-> "Err"]

\* ------------------------------------------------------------ reducer ----
\* length of the test case given to the reducer, at most
MaxReduceLen == 3

\* the operations of the test cases given to the reducer; a test case is read
\* from a JSON file and need not be valid
ReducerOps ==
    {MKDIR(<<"/", "a">>), CREATE(<<"/", "a", "/", "a">>), CREATE(<<"/", "a", "a">>),
     HARDLINK(<<"/", "a", "a">>, <<"/", "a", "a", "a">>), REMOVE(<<"/", "a", "a">>)}

ReducerInputs == UNION {[1..n -> ReducerOps] : n \in 0..MaxReduceLen}

\* values of Vec<FileDiff>
Diffs == {"D", "E"}

\* what compile_test, run_harness and the hash objective give for one test
\* case: an error, an outcome that is not Completed on both sides, or two
\* Completed outcomes, interesting or not, with their diff
RunOutcomes ==
    {[kind |-> "Err", hash |-> FALSE, diff |-> "none"],
     [kind |-> "Incomplete", hash |-> FALSE, diff |-> "none"],
     [kind |-> "Completed", hash |-> FALSE, diff |-> "none"]}
        \cup {[kind |-> "Completed", hash |-> TRUE, diff |-> d] : d \in Diffs}

\* mutant of commits: any interesting hash difference is taken
commits_any_diff(old_diff, outcome) ==
    outcome.kind = "Completed" /\ outcome.hash

\* reduce_by_hash: both outcomes Completed, hash_diff_interesting and
\* old_diff == new_diff
commits(old_diff, outcome) ==
    outcome.kind = "Completed" /\ outcome.hash /\ outcome.diff = old_diff

\* Runner::report_diff(workload, dir_name, .., output_dir, ..) returning Ok:
\* a report directory of that name holding the workload
report_saved(saved, dir_name, workload_) ==
    Append(saved, [name |-> dir_name, workload |-> workload_])

\* Reducer::run is entered with the test case it read
InitReducer ==
    /\ ExecutorFresh(0) /\ MutatorIdle /\ HarnessIdle
    /\ call = NoCall /\ generator = NotGenerating /\ crashes = NoCrashes
    /\ greybox = NoHarness
    /\ \E input \in ReducerInputs :
           /\ reducer = [NotReducing EXCEPT !.pc = "run", !.workload = input]
           /\ reduction = [NothingReduced EXCEPT !.input = input]

\* the reducer returns, or unwinds
ReducerReturns(result) == [reducer EXCEPT !.pc = "done", !.result = result]

\* mutant of ReducerRun: reduce_by_hash starts at index input.ops.len()
ReducerRunFromLen ==
    /\ reducer.pc = "run"
    /\ \E o \in RunOutcomes :
           /\ reducer' =
                  IF o.kind = "Err" THEN ReducerReturns("Err")
                  ELSE IF o.kind = "Incomplete" THEN ReducerReturns("Panic")
                  ELSE IF ~o.hash THEN ReducerReturns("Ok")
                  ELSE [reducer EXCEPT !.pc = "loop", !.old_diff = o.diff,
                                       !.index = Len(reducer.workload)]
           /\ reduction' = [reduction EXCEPT !.triggers = (o.kind = "Completed" /\ o.hash)]
    /\ UNCHANGED <<executor_vars, mutator_vars, harness_vars, call, generator, crashes,
                 greybox>>

\* Reducer::run up to the loop of reduce_by_hash: the test case is compiled
\* and run; without a hash difference nothing is reduced; with one,
\* reduce_by_hash starts at index input.ops.len() - 1
ReducerRun ==
    /\ reducer.pc = "run"
    /\ \E o \in RunOutcomes :
           /\ reducer' =
                  IF o.kind = "Err" THEN ReducerReturns("Err")
                  ELSE IF o.kind = "Incomplete" THEN ReducerReturns("Panic")
                  ELSE IF ~o.hash THEN ReducerReturns("Ok")
                  ELSE IF Len(reducer.workload) = 0 THEN ReducerReturns("Panic")
                  ELSE [reducer EXCEPT !.pc = "loop", !.old_diff = o.diff,
                                       !.index = Len(reducer.workload) - 1]
           /\ reduction' = [reduction EXCEPT !.triggers = (o.kind = "Completed" /\ o.hash)]
    /\ UNCHANGED <<executor_vars, mutator_vars, harness_vars, call, generator, crashes,
                 greybox>>

\* the end of one loop iteration: break at index 0, else index -= 1
ReducerAdvance(r) ==
    IF r.index = 0 THEN [r EXCEPT !.pc = "done", !.result = "Ok"]
    ELSE [r EXCEPT !.index = @ - 1]

\* one iteration of the loop of reduce_by_hash
ReduceTry ==
    /\ reducer.pc = "loop"
    /\ \E removed \in {mutator_remove(reducer.workload, reducer.index)} :
       \E o \in IF removed.tag = "Some" THEN RunOutcomes
                ELSE {[kind |-> "none", hash |-> FALSE, diff |-> "none"]} :
       \E report \in IF commits(reducer.old_diff, o) THEN {"Ok", "Err"} ELSE {"none"} :
           /\ reducer' =
                  IF removed.tag = "Panic" THEN ReducerReturns("Panic")
                  ELSE IF removed.tag = "None" THEN ReducerAdvance(reducer)
                  ELSE IF o.kind = "Err" THEN ReducerReturns("Err")
                  ELSE IF ~commits(reducer.old_diff, o) THEN ReducerAdvance(reducer)
                  ELSE IF report = "Err"
                  THEN [ReducerReturns("Err") EXCEPT !.workload = removed.val]
                  ELSE ReducerAdvance(
                           [reducer EXCEPT
                                !.workload = removed.val,
                                !.saved = report_saved(@, reducer.index, removed.val)])
           /\ reduction' =
                  [reduction EXCEPT
                       !.tried = @ + 1,
                       !.runs = IF removed.tag = "Some" THEN @ + 1 ELSE @,
                       !.commits = IF commits(reducer.old_diff, o) THEN @ + 1 ELSE @,
                       !.last = [index |-> reducer.index, removed |-> removed.tag,
                                 outcome |-> o, report |-> report]]
    /\ UNCHANGED <<executor_vars, mutator_vars, harness_vars, call, generator, crashes,
                 greybox>>

NextReducer == ReducerRun \/ ReduceTry

SpecReducer == InitReducer /\ [][NextReducer]_vars

\* the step just taken is one iteration of the loop of reduce_by_hash
ReduceTried == reducer.pc = "loop" /\ reduction'.tried = reduction.tried + 1

C22_ResultEmitted ==
    (reducer.pc = "done" /\ reducer.result = "Ok" /\ reduction.triggers) =>
        \E i \in 1..Len(reducer.saved) : reducer.saved[i].workload = reducer.workload

\* ----------------------------------------------------------- commands ----
\* largest exit code of a process
MaxExitCode == 255

\* exit code of timeout(1) when the command timed out
TimeoutExitCode == 124

\* Option<u8>: the timeout given to exec_local
NoTimeout == [tag |-> "None", val |-> 0]
SomeTimeout(secs) == [tag |-> "Some", val |-> secs]
Timeouts == {NoTimeout, SomeTimeout(1), SomeTimeout(255)}

\* what running the command gives: output() fails, or a status with an exit
\* code, or a status without one (the process was ended by a signal)
CommandRuns ==
    {[kind |-> "failed", code |-> 0], [kind |-> "signal", code |-> 0]}
        \cup {[kind |-> "exited", code |-> c] : c \in 0..MaxExitCode}

\* everything but the call of a function without state
not_call_vars ==
    <<executor_vars, mutator_vars, harness_vars, reducer_vars, generator, crashes,
      greybox>>

\* the other components are not in use
OnlyCalls ==
    /\ ExecutorFresh(0) /\ MutatorIdle /\ HarnessIdle /\ ReducerIdle
    /\ generator = NotGenerating /\ crashes = NoCrashes /\ greybox = NoHarness

\* mutant of exec_local: exit code 124 is a timeout whether one was given or not
exec_local_any_124(timeout, run) ==
    IF run.kind = "failed" THEN "IoError"
    ELSE IF run.kind = "signal" THEN "IoError"
    ELSE IF run.code = 0 THEN "Ok"
    ELSE IF run.code = TimeoutExitCode THEN "TimedOut"
    ELSE "IoError"

\* CommandWrapper::exec_local, run being what output() gives
exec_local(timeout, run) ==
    IF run.kind = "failed" THEN "IoError"
    ELSE IF run.kind = "signal" THEN "IoError"
    ELSE IF run.code = 0 THEN "Ok"
    ELSE IF run.code = TimeoutExitCode /\ timeout.tag = "Some" THEN "TimedOut"
    ELSE "IoError"

\* a command is about to be executed on the host
InitCommand ==
    /\ OnlyCalls
    /\ \E timeout \in Timeouts, run \in CommandRuns :
           call = [fn |-> "exec_local", args |-> [timeout |-> timeout, run |-> run],
                   result |-> "none"]

\* exec_local returns
ExecLocal ==
    /\ call.fn = "exec_local" /\ call.result = "none"
    /\ call' = [call EXCEPT !.result = exec_local(call.args.timeout, call.args.run)]
    /\ UNCHANGED not_call_vars

NextCommand == ExecLocal

SpecCommand == InitCommand /\ [][NextCommand]_vars

\* C23: exec_local returns Ok iff the exit code is 0, TimedOut iff a timeout
\* was given and the exit code is 124, and IoError in every other case:
\* another exit code, 124 with no timeout, a signal, a failure to start
C23_ExecLocalOutcome ==
    (call.fn = "exec_local" /\ call.result # "none") =>
        LET exited(c) == call.args.run.kind = "exited" /\ call.args.run.code = c
            timed_out == call.args.timeout.tag = "Some" /\ exited(124)
        IN  /\ call.result \in {"Ok", "TimedOut", "IoError"}
            /\ call.result = "Ok" <=> exited(0)
            /\ call.result = "TimedOut" <=> timed_out
            /\ call.result = "IoError" <=> ~exited(0) /\ ~timed_out

\* exit code 124 with no timeout given was classified as IoError
C23_Witness ==
    /\ call.fn = "exec_local" /\ call.result = "IoError"
    /\ call.args.timeout = NoTimeout
    /\ call.args.run = [kind |-> "exited", code |-> 124]

\* -------------------------------------------------------------- traces ----
\* most lines of a trace text
MaxTraceLines == 3

\* characters str::trim removes, among those of the texts below
WhiteSpace == {" "}

Digits == {"0", "1", "2", "3", "4", "5", "6", "7", "8", "9"}

DigitValue(c) ==
    CASE c = "0" -> 0 [] c = "1" -> 1 [] c = "2" -> 2 [] c = "3" -> 3
      [] c = "4" -> 4 [] c = "5" -> 5 [] c = "6" -> 6 [] c = "7" -> 7
      [] c = "8" -> 8 [] c = "9" -> 9

\* str::split(sep): the pieces between the separators, one more than there
\* are separators ("" gives one empty piece)
RECURSIVE str_split(_, _)
str_split(s, sep) ==
    IF \A i \in 1..Len(s) : s[i] # sep THEN <<s>>
    ELSE LET at == CHOOSE i \in 1..Len(s) :
                       s[i] = sep /\ \A j \in 1..(i - 1) : s[j] # sep
         IN  <<SubSeq(s, 1, at - 1)>> \o str_split(SubSeq(s, at + 1, Len(s)), sep)

RECURSIVE trim_start(_)
trim_start(s) ==
    IF s # <<>> /\ Head(s) \in WhiteSpace THEN trim_start(Tail(s)) ELSE s

RECURSIVE trim_end(_)
trim_end(s) ==
    IF s # <<>> /\ s[Len(s)] \in WhiteSpace
    THEN trim_end(SubSeq(s, 1, Len(s) - 1)) ELSE s

\* str::trim
trim(s) == trim_end(trim_start(s))

\* the number a string of decimal digits spells
RECURSIVE digits_value(_, _)
digits_value(s, acc) ==
    IF s = <<>> THEN acc ELSE digits_value(Tail(s), acc * 10 + DigitValue(Head(s)))

IntParse == [ok |-> FALSE, val |-> 0]

\* str::parse::<u32>: an optional '+' and at least one digit, nothing else
\* (the numbers of the texts below have one digit: none exceeds u32)
parse_u32(s) ==
    LET body == IF s # <<>> /\ Head(s) = "+" THEN Tail(s) ELSE s
    IN  IF body = <<>> \/ \E i \in 1..Len(body) : body[i] \notin Digits
        THEN IntParse
        ELSE [ok |-> TRUE, val |-> digits_value(body, 0)]

\* str::parse::<i32>: an optional '+' or '-' and at least one digit
parse_i32(s) ==
    LET signed == s # <<>> /\ Head(s) \in {"+", "-"}
        body == IF signed THEN Tail(s) ELSE s
    IN  IF body = <<>> \/ \E i \in 1..Len(body) : body[i] \notin Digits
        THEN IntParse
        ELSE IF signed /\ Head(s) = "-"
        THEN [ok |-> TRUE, val |-> 0 - digits_value(body, 0)]
        ELSE [ok |-> TRUE, val |-> digits_value(body, 0)]

NotParsed == [tag |-> "none", rows |-> <<>>, err |-> "none"]
TraceOk(rows) == [tag |-> "Ok", rows |-> rows, err |-> "none"]
TraceErr(err) == [tag |-> "Err", rows |-> <<>>, err |-> err]

\* the loop of parse_trace over lines[1..], i being the 1-based position of
\* the line looked at: it ends at the first blank line
RECURSIVE parse_rows(_, _, _)
parse_rows(lines, i, rows) ==
    IF i > Len(lines) THEN TraceOk(rows)
    ELSE IF trim(lines[i]) = <<>> THEN TraceOk(rows)
    ELSE LET columns == str_split(lines[i], ",")
         IN  IF Len(columns) # 4 THEN TraceErr("InvalidColumnsCount")
             ELSE LET index == parse_u32(trim(columns[1]))
                      return_code == parse_i32(trim(columns[3]))
                  IN  IF ~index.ok THEN TraceErr("IntParse")
                      ELSE IF ~return_code.ok THEN TraceErr("IntParse")
                      ELSE parse_rows(lines, i + 1,
                               Append(rows, TraceRow(index.val, trim(columns[2]),
                                                     return_code.val,
                                                     trim(columns[4]))))

\* parse_trace
parse_trace(trace) ==
    LET lines == str_split(trace, "\n")
    IN  IF Len(lines) <= 1 THEN TraceErr("EmptyTrace")
        ELSE parse_rows(lines, 2, <<>>)

\* the lines the texts are made of, each with what it is: the header, a
\* well-formed row (with the TraceRow it spells), an empty or blank line, a
\* row with three or five columns, a row whose index or return code is no
\* integer of its type
HeaderLine ==
    [text |-> <<"I", ",", "C", ",", "R", ",", "E">>, kind |-> "header",
     row |-> TraceRow(0, <<>>, 0, <<>>)]
TraceLines ==
    {HeaderLine,
     [text |-> <<"1", ",", "f", ",", "0", ",", "S">>, kind |-> "row",
      row |-> TraceRow(1, <<"f">>, 0, <<"S">>)],
     [text |-> <<" ", "2", ",", " ", "b", ",", "-", "1", ",", "E", " ">>,
      kind |-> "row", row |-> TraceRow(2, <<"b">>, 0 - 1, <<"E">>)],
     [text |-> <<>>, kind |-> "empty", row |-> TraceRow(0, <<>>, 0, <<>>)],
     [text |-> <<" ">>, kind |-> "blank", row |-> TraceRow(0, <<>>, 0, <<>>)],
     [text |-> <<"1", ",", "f", ",", "0">>, kind |-> "malformed",
      row |-> TraceRow(0, <<>>, 0, <<>>)],
     [text |-> <<"1", ",", "f", ",", "0", ",", "S", ",", "?">>,
      kind |-> "malformed", row |-> TraceRow(0, <<>>, 0, <<>>)],
     [text |-> <<"f", ",", "f", ",", "0", ",", "S">>, kind |-> "malformed",
      row |-> TraceRow(0, <<>>, 0, <<>>)],
     [text |-> <<"-", "1", ",", "f", ",", "0", ",", "S">>, kind |-> "malformed",
      row |-> TraceRow(0, <<>>, 0, <<>>)],
     [text |-> <<"1", ",", "f", ",", "S", ",", "S">>, kind |-> "malformed",
      row |-> TraceRow(0, <<>>, 0, <<>>)]}

\* the text whose lines are the given ones: a '\n' between two lines
RECURSIVE join_lines(_)
join_lines(ls) ==
    IF ls = <<>> THEN <<>>
    ELSE IF Len(ls) = 1 THEN ls[1].text
    ELSE ls[1].text \o <<"\n">> \o join_lines(Tail(ls))

TraceInputs == UNION {[1..n -> TraceLines] : n \in 0..MaxTraceLines}

\* a trace text is about to be parsed
InitTrace ==
    /\ OnlyCalls
    /\ \E ls \in TraceInputs :
           call = [fn |-> "parse_trace",
                   args |-> [trace |-> join_lines(ls), lines |-> ls],
                   result |-> NotParsed]

\* parse_trace returns
ParseTrace ==
    /\ call.fn = "parse_trace" /\ call.result = NotParsed
    /\ call' = [call EXCEPT !.result = parse_trace(call.args.trace)]
    /\ UNCHANGED not_call_vars

NextTrace == ParseTrace

SpecTrace == InitTrace /\ [][NextTrace]_vars

Parsed == call.fn = "parse_trace" /\ call.result # NotParsed

\* the lines are the header and then k rows, all of them well formed, with
\* or without a newline after the last of them
HeaderAndRows(ls) ==
    /\ ls # <<>> /\ ls[1].kind = "header"
    /\ \A i \in 2..Len(ls) :
           ls[i].kind = "row" \/ (i = Len(ls) /\ ls[i].kind = "empty")

\* the TraceRows that the well-formed rows of the lines spell, in order
RowsOf(ls) ==
    LET rows == SelectSeq(ls, LAMBDA l : l.kind = "row")
    IN  [i \in 1..Len(rows) |-> rows[i].row]

\* C24: parse_trace returns EmptyTrace for empty input, an empty trace for
\* header-only input with or without a trailing newline, and for a header
\* followed by k well-formed rows exactly the k TraceRows in input order,
\* integers parsed, command and errno trimmed
C24_ParseTrace ==
    Parsed =>
        /\ call.args.trace = <<>> => call.result = TraceErr("EmptyTrace")
        /\ HeaderAndRows(call.args.lines) =>
               call.result = TraceOk(RowsOf(call.args.lines))

\* C25: parse_trace returns Ok only if every line after the header that is
\* not empty (or blank) is a well-formed row, also the lines that follow a
\* blank line
C25_RejectsMalformed ==
    (Parsed /\ call.result.tag = "Ok") =>
        \A i \in 2..Len(call.args.lines) :
            call.args.lines[i].kind \in {"row", "empty", "blank"}

\* ----------------------------------------------------------- PathName ----
\* longest path name of the exhaustive part of the inputs
MaxNameLen == 3

PathNameAlphabet == {"/", "1", "2"}

\* the strings of the unit test, as they are and continued
TestPathNames ==
    {<<"/", "1", "/", "2">>, <<"/", "1", "/", "2", "/", "3">>, <<"/", "1", "/", "2", "0", "/", "3">>,
     <<"/", "1", "/", "2", "0">>}

\* PathName wraps any String: every string up to MaxNameLen, valid path or not
PathNames ==
    UNION {[1..n -> PathNameAlphabet] : n \in 0..MaxNameLen} \cup TestPathNames

\* PathName::segments
segments(path) == SelectSeq(str_split(path, "/"), LAMBDA s : s # <<>>)

\* mutant of is_prefix_of: the strings are compared, not their segments
is_prefix_of_str(path, other) ==
    Len(path) <= Len(other) /\ SubSeq(other, 1, Len(path)) = path

\* PathName::is_prefix_of
is_prefix_of(path, other) ==
    LET segs == segments(path)
        other_segments == segments(other)
    IN  IF Len(other_segments) < Len(segs) THEN FALSE
        ELSE \A i \in 1..Len(segs) : segs[i] = other_segments[i]

NoAnswer == [done |-> FALSE, val |-> FALSE]
Answer(b) == [done |-> TRUE, val |-> b]

\* two path names are about to be compared
InitPathName ==
    /\ OnlyCalls
    /\ \E path \in PathNames, other \in PathNames :
           call = [fn |-> "is_prefix_of", args |-> [path |-> path, other |-> other],
                   result |-> NoAnswer]

\* is_prefix_of returns
IsPrefixOf ==
    /\ call.fn = "is_prefix_of" /\ call.result = NoAnswer
    /\ call' = [call EXCEPT
                   !.result = Answer(is_prefix_of(call.args.path, call.args.other))]
    /\ UNCHANGED not_call_vars

NextPathName == IsPrefixOf

SpecPathName == InitPathName /\ [][NextPathName]_vars

\* a is an initial part of b
InitialPart(a, b) == \E n \in 0..Len(b) : SubSeq(b, 1, n) = a

\* C26: a.is_prefix_of(b) holds iff the segment list of a is an initial part
\* of the segment list of b; it is reflexive and transitive, "/" is a prefix
\* of every path, "/1/2" is a prefix of "/1/2/3", not of "/1/20/3" nor "/1"
C26_IsPrefixOf ==
    (call.fn = "is_prefix_of" /\ call.result.done) =>
        LET a == call.args.path
            b == call.args.other
            res == call.result.val
        IN  /\ res <=> InitialPart(segments(a), segments(b))
            /\ a = b => res
            /\ a = <<"/">> => res
            /\ res => \A c \in PathNames : is_prefix_of(b, c) => is_prefix_of(a, c)
            /\ (a = <<"/", "1", "/", "2">> /\ b = <<"/", "1", "/", "2", "/", "3">>)
                   => res
            /\ (a = <<"/", "1", "/", "2">>
                  /\ b \in {<<"/", "1", "/", "2", "0", "/", "3">>, <<"/", "1">>})
                   => ~res

\* "/1/2" was found not to be a prefix of "/1/20/3"
C26_Witness ==
    /\ call.fn = "is_prefix_of" /\ call.result = Answer(FALSE)
    /\ call.args.path = <<"/", "1", "/", "2">>
    /\ call.args.other = <<"/", "1", "/", "2", "0", "/", "3">>

\* ------------------------------------------------------------ encoder ----
\* longest workload that is encoded
MaxEncodeLen == 3

\* Display of ModeFlag: the name of the flag
S_IRWXU == "S_IRWXU"
S_IRWXG == "S_IRWXG"
S_IROTH == "S_IROTH"

\* operations of a workload, as the encoder sees them
EncodeOps ==
    {[kind |-> "Create", path |-> <<"/", "a">>, mode |-> <<>>],
     [kind |-> "Create", path |-> <<"/", "a", "/", "a">>,
      mode |-> <<S_IRWXU, S_IRWXG, S_IROTH>>],
     [kind |-> "MkDir", path |-> <<"/", "a">>, mode |-> <<S_IRWXU>>],
     [kind |-> "Remove", path |-> <<"/", "a">>],
     [kind |-> "Hardlink", old_path |-> <<"/", "a">>, new_path |-> <<"/", "a", "a">>],
     [kind |-> "Rename", old_path |-> <<"/", "a", "a">>, new_path |-> <<"/", "a">>],
     [kind |-> "Open", path |-> <<"/", "a">>, des |-> 0],
     [kind |-> "Open", path |-> <<"/", "a", "a">>, des |-> 1],
     [kind |-> "Close", des |-> 0],
     [kind |-> "Read", des |-> 1, size |-> 1024],
     [kind |-> "Write", des |-> 0, src_offset |-> 999, size |-> 1024],
     [kind |-> "FSync", des |-> 1],
     [kind |-> "Symlink", target |-> <<"a">>, linkpath |-> <<"/", "a", "a">>]}

EncodeInputs == UNION {[1..n -> EncodeOps] : n \in 0..MaxEncodeLen}

\* a text is a sequence of pieces: the characters of a path, a digit, or a
\* piece of the fixed text of a format string
DigitChar(d) == CHOOSE c \in Digits : DigitValue(c) = d

\* to_string of an unsigned number: its decimal digits
RECURSIVE to_string(_)
to_string(n) ==
    IF n < 10 THEN <<DigitChar(n)>>
    ELSE to_string(n \div 10) \o <<DigitChar(n % 10)>>

\* descriptor_to_var
descriptor_to_var(des) == <<"fd_">> \o to_string(des)

\* [String]::join
RECURSIVE join_with(_, _)
join_with(strs, sep) ==
    IF strs = <<>> THEN <<>>
    ELSE IF Len(strs) = 1 THEN strs[1]
    ELSE strs[1] \o <<sep>> \o join_with(Tail(strs), sep)

\* encode_mode
encode_mode(mode) ==
    IF mode = <<>> THEN to_string(0)
    ELSE join_with([i \in 1..Len(mode) |-> <<mode[i]>>], " | ")

quoted(s) == <<"\"">> \o s \o <<"\"">>

\* the match of encode_c: the line of one operation
encode_op(op) ==
    CASE op.kind = "Create" ->
             <<"do_create", "(">> \o quoted(op.path) \o <<", ">>
                 \o encode_mode(op.mode) \o <<")", ";", "\n">>
      [] op.kind = "MkDir" ->
             <<"do_mkdir", "(">> \o quoted(op.path) \o <<", ">>
                 \o encode_mode(op.mode) \o <<")", ";", "\n">>
      [] op.kind = "Remove" ->
             <<"do_remove", "(">> \o quoted(op.path) \o <<")", ";", "\n">>
      [] op.kind = "Hardlink" ->
             <<"do_hardlink", "(">> \o quoted(op.old_path) \o <<", ">>
                 \o quoted(op.new_path) \o <<")", ";", "\n">>
      [] op.kind = "Rename" ->
             <<"do_rename", "(">> \o quoted(op.old_path) \o <<", ">>
                 \o quoted(op.new_path) \o <<")", ";", "\n">>
      [] op.kind = "Open" ->
             descriptor_to_var(op.des) \o <<" = ", "do_open", "(">>
                 \o quoted(op.path) \o <<")", ";", "\n">>
      [] op.kind = "Close" ->
             <<"do_close", "(">> \o descriptor_to_var(op.des) \o <<")", ";", "\n">>
      [] op.kind = "Read" ->
             <<"do_read", "(">> \o descriptor_to_var(op.des) \o <<", ">>
                 \o to_string(op.size) \o <<")", ";", "\n">>
      [] op.kind = "Write" ->
             <<"do_write", "(">> \o descriptor_to_var(op.des) \o <<", ">>
                 \o to_string(op.src_offset) \o <<", ">> \o to_string(op.size)
                 \o <<")", ";", "\n">>
      [] op.kind = "FSync" ->
             <<"do_fsync", "(">> \o descriptor_to_var(op.des) \o <<")", ";", "\n">>
      [] op.kind = "Symlink" ->
             <<"do_symlink", "(">> \o quoted(op.target) \o <<", ">>
                 \o quoted(op.linkpath) \o <<")", ";", "\n">>

\* the first loop of encode_c: one more than the largest descriptor opened
descriptors_n(ops) ==
    LET opened == {ops[i].des + 1 : i \in {j \in 1..Len(ops) : ops[j].kind = "Open"}}
    IN  IF opened = {} THEN 0 ELSE CHOOSE n \in opened : \A m \in opened : m <= n

\* the text before the body
encode_head(ops) ==
    <<"#include \"executor.h\"", "\n">>
        \o (IF descriptors_n(ops) > 0
            THEN <<"\n", "int ">>
                     \o join_with([it \in 1..descriptors_n(ops) |->
                                       <<"fd_">> \o to_string(it - 1)], ", ")
                     \o <<";", "\n", "\n">>
            ELSE <<"\n", "// no descriptors", "\n", "\n">>)
        \o <<"void test_workload()", "\n", "{", "\n">>

\* the second loop of encode_c
RECURSIVE encode_body(_)
encode_body(ops) ==
    IF ops = <<>> THEN <<>> ELSE encode_op(Head(ops)) \o encode_body(Tail(ops))

\* mutant of encode_c: the operations are written last to first
encode_c_reversed(ops) ==
    encode_head(ops)
        \o encode_body([i \in 1..Len(ops) |-> ops[Len(ops) + 1 - i]]) \o <<"}">>

\* Workload::encode_c
encode_c(ops) == encode_head(ops) \o encode_body(ops) \o <<"}">>

NotEncoded == [done |-> FALSE, text |-> <<>>]
Encoded(text) == [done |-> TRUE, text |-> text]

\* a workload is about to be encoded
InitEncode ==
    /\ OnlyCalls
    /\ \E ops \in EncodeInputs :
           call = [fn |-> "encode_c", args |-> [ops |-> ops], result |-> NotEncoded]

\* encode_c returns
EncodeC ==
    /\ call.fn = "encode_c" /\ call.result = NotEncoded
    /\ call' = [call EXCEPT !.result = Encoded(encode_c(call.args.ops))]
    /\ UNCHANGED not_call_vars

NextEncode == EncodeC

SpecEncode == InitEncode /\ [][NextEncode]_vars

\* reading a text back: the lines between the line "{" and the last line "}"
BodyLines(text) ==
    LET lines == str_split(text, "\n")
        open == CHOOSE i \in 1..Len(lines) :
                    lines[i] = <<"{">> /\ \A j \in 1..(i - 1) : lines[j] # <<"{">>
    IN  SubSeq(lines, open + 1, Len(lines) - 1)

WellBraced(text) ==
    LET lines == str_split(text, "\n")
    IN  /\ \E i \in 1..Len(lines) : lines[i] = <<"{">>
        /\ lines[Len(lines)] = <<"}">>

\* the harness function of each kind of operation
HarnessFunction ==
    [Create |-> "do_create", MkDir |-> "do_mkdir", Remove |-> "do_remove",
     Hardlink |-> "do_hardlink", Rename |-> "do_rename", Open |-> "do_open",
     Close |-> "do_close", Read |-> "do_read", Write |-> "do_write",
     FSync |-> "do_fsync", Symlink |-> "do_symlink"]

HarnessFunctions ==
    {"do_create", "do_mkdir", "do_remove", "do_hardlink", "do_rename", "do_open",
     "do_close", "do_read", "do_write", "do_fsync", "do_symlink"}

\* the harness functions a line names, in order
CalledIn(line) == SelectSeq(line, LAMBDA t : t \in HarnessFunctions)

\* the arguments of the call of a line: what stands between "(" and ")"
\* cut at the commas
ArgumentsIn(line) ==
    LET from == CHOOSE i \in 1..Len(line) : line[i] = "("
        to == CHOOSE i \in 1..Len(line) : line[i] = ")"
    IN  str_split(SubSeq(line, from + 1, to - 1), ", ")

\* what an argument spells
IsString(arg, s) == arg = <<"\"">> \o s \o <<"\"">>
IsNumber(arg, n) ==
    /\ arg # <<>> /\ \A i \in 1..Len(arg) : arg[i] \in Digits
    /\ digits_value(arg, 0) = n
IsDescriptor(arg, des) ==
    arg # <<>> /\ Head(arg) = "fd_" /\ IsNumber(Tail(arg), des)
IsMode(arg, mode) ==
    IF mode = <<>> THEN IsNumber(arg, 0)
    ELSE str_split(arg, " | ") = [i \in 1..Len(mode) |-> <<mode[i]>>]

\* the line names the harness function of the operation's kind with the
\* operation's arguments (and, for Open, assigns to the descriptor's variable)
LineOf(line, op) ==
    /\ CalledIn(line) = <<HarnessFunction[op.kind]>>
    /\ \E i \in 1..Len(line) : line[i] = "("
    /\ \E i \in 1..Len(line) : line[i] = ")"
    /\ LET args == ArgumentsIn(line)
       IN  CASE op.kind \in {"Create", "MkDir"} ->
                    Len(args) = 2 /\ IsString(args[1], op.path)
                        /\ IsMode(args[2], op.mode)
             [] op.kind = "Remove" -> Len(args) = 1 /\ IsString(args[1], op.path)
             [] op.kind \in {"Hardlink", "Rename"} ->
                    Len(args) = 2 /\ IsString(args[1], op.old_path)
                        /\ IsString(args[2], op.new_path)
             [] op.kind = "Open" ->
                    /\ Len(args) = 1 /\ IsString(args[1], op.path)
                    /\ \E k \in 1..Len(line) :
                           line[k] = " = " /\ IsDescriptor(SubSeq(line, 1, k - 1), op.des)
             [] op.kind \in {"Close", "FSync"} ->
                    Len(args) = 1 /\ IsDescriptor(args[1], op.des)
             [] op.kind = "Read" ->
                    Len(args) = 2 /\ IsDescriptor(args[1], op.des)
                        /\ IsNumber(args[2], op.size)
             [] op.kind = "Write" ->
                    Len(args) = 3 /\ IsDescriptor(args[1], op.des)
                        /\ IsNumber(args[2], op.src_offset)
                        /\ IsNumber(args[3], op.size)
             [] op.kind = "Symlink" ->
                    Len(args) = 2 /\ IsString(args[1], op.target)
                        /\ IsString(args[2], op.linkpath)

\* C27: between the braces of test_workload encode_c(W) has exactly one do_*
\* line per operation of W, in the order of W, each naming the harness
\* function of the operation's kind with the operation's arguments; the
\* body of the empty workload is empty
C27_EncodeBody ==
    (call.fn = "encode_c" /\ call.result.done) =>
        /\ WellBraced(call.result.text)
        /\ LET body == BodyLines(call.result.text)
               ops == call.args.ops
           IN  /\ Len(body) = Len(ops)
               /\ \A i \in 1..Len(ops) : LineOf(body[i], ops[i])

\* a workload that opens a file, writes to it and closes it was encoded
C27_Witness ==
    /\ call.fn = "encode_c" /\ call.result.done
    /\ Len(call.args.ops) = 3
    /\ call.args.ops[1].kind = "Open"
    /\ call.args.ops[2].kind = "Write"
    /\ call.args.ops[3].kind = "Close"

\* ------------------------------------------------- generate_new (first) ----
\* largest size asked of generate_new
MaxGenerateNew == 4

\* executor.mkdir(dir, name, mode) of the index-based executor: a directory
\* named name is made in the directory dir
mkdir_in(e, dir, name) == mkdir(e, make_path(e, dir, name)).e

\* executor.create(dir, name, mode) of the index-based executor
create_in(e, dir, name) == create(e, make_path(e, dir, name)).e

\* executor.remove(node) of the index-based executor: the node is unlinked
remove_node(e, node) == remove(e, resolve_path(e, node)[1]).e

\* let alive_dirs: the directories among the alive nodes
alive_dirs(alive_) ==
    LET ds == SelectSeq(alive_, LAMBDA n : n.kind = "DIR")
    IN  [i \in 1..Len(ds) |-> ds[i].idx]

\* let alive_dirs_except_root
alive_dirs_except_root(alive_) ==
    SelectSeq(alive_dirs(alive_), LAMBDA d : d # root_index)

\* let mut possible_ops, and the push of REMOVE
possible_ops(alive_) ==
    {"MKDIR", "CREATE"}
        \cup (IF alive_dirs_except_root(alive_) # <<>> THEN {"REMOVE"} ELSE {})

\* the nodes the REMOVE branch chooses among
removable(alive_) ==
    SelectSeq(alive_, LAMBDA n : n.kind = "FILE" \/ n.idx # root_index)

\* generate_new(rng, size) has made its executor
InitGenerator ==
    /\ \E size \in 1..MaxGenerateNew : ExecutorFresh(size)
    /\ MutatorIdle /\ HarnessIdle /\ ReducerIdle
    /\ call = NoCall /\ crashes = NoCrashes /\ greybox = NoHarness
    /\ generator = [NotGenerating EXCEPT !.on = TRUE]

\* one iteration of the loop of generate_new
GenerateNew ==
    /\ generator.on /\ left > 0
    /\ \E alive_ \in {alive(self)} :
       \E op \in possible_ops(alive_) :
           \/ /\ op \in {"MKDIR", "CREATE"}
              /\ \E i \in 1..Len(alive_dirs(alive_)) :
                     LET dir == alive_dirs(alive_)[i]
                         name == to_string(generator.name_idx)
                         e == IF op = "MKDIR" THEN mkdir_in(self, dir, name)
                              ELSE create_in(self, dir, name)
                     IN  /\ dirs' = e.dirs /\ files' = e.files
                         /\ nodes_created' = e.nodes_created
                         /\ recording' = e.recording
                         /\ generator' =
                                [on |-> TRUE, name_idx |-> generator.name_idx + 1,
                                 last |-> [alive |-> alive_,
                                           possible_ops |-> possible_ops(alive_),
                                           op |-> op, node |-> DIR(dir)]]
           \/ /\ op = "REMOVE"
              /\ \E i \in 1..Len(removable(alive_)) :
                     LET node == removable(alive_)[i]
                         e == remove_node(self, node)
                     IN  /\ dirs' = e.dirs /\ files' = e.files
                         /\ nodes_created' = e.nodes_created
                         /\ recording' = e.recording
                         /\ generator' =
                                [generator EXCEPT
                                    !.last = [alive |-> alive_,
                                              possible_ops |-> possible_ops(alive_),
                                              op |-> op, node |-> node]]
    /\ left' = left - 1
    /\ UNCHANGED <<workload, all_ok, ret, replayed>>
    /\ UNCHANGED <<mutator_vars, harness_vars, reducer_vars, call, crashes, greybox>>

NextGenerator == GenerateNew

SpecGenerator == InitGenerator /\ [][NextGenerator]_vars

Sampled == generator.on /\ generator.last.op # "none"

\* C28: REMOVE is a candidate exactly when some node other than the root,
\* file or directory, is alive, and the root is never the node removed
C28_RemoveOffered ==
    Sampled =>
        /\ "REMOVE" \in generator.last.possible_ops
               <=> \E i \in 1..Len(generator.last.alive) :
                       generator.last.alive[i] # DIR(root_index)
        /\ generator.last.op = "REMOVE" => generator.last.node # DIR(root_index)

\* ------------------------------------------------------- report_crash ----
\* most reports made
MaxReports == 3

\* the workloads reported
CrashWorkloads == {<<MKDIR(<<"/", "a">>)>>, <<CREATE(<<"/", "a">>)>>}

\* the names Workload::generate_name gives
HashNames == {"h1", "h2"}

\* Workload::generate_name: some function of the workload, the same at every
\* call; two workloads may have one name
GenerateNames == [CrashWorkloads -> HashNames]

\* the steps of report_crash that can fail, in order
ReportSteps == <<"exists", "create_dir", "test", "fst_output", "snd_output", "diff">>

\* which step fails: none (0) or the step of that position
Failures == 0..Len(ReportSteps)

\* the files written before the failing step
saved(fail) ==
    IF fail = 0 THEN {"test", "fst_output", "snd_output", "diff"}
    ELSE {ReportSteps[k] : k \in 3..(fail - 1)}

\* mutant of report_crash: no look at whether the directory exists
report_crash_overwrites(crash_dirs, name, input, fail) ==
    IF fail \in {1, 2} THEN [dirs |-> crash_dirs, res |-> "Err"]
    ELSE [dirs |-> MapInsert(crash_dirs, name,
                             [input |-> input, files |-> saved(fail)]),
          res |-> IF fail = 0 THEN "Ok" ELSE "Err"]

\* FuzzData::report_crash, name being input.generate_name()
report_crash(crash_dirs, name, input, fail) ==
    IF fail = 1 THEN [dirs |-> crash_dirs, res |-> "Err"]
    ELSE IF name \in DOMAIN crash_dirs THEN [dirs |-> crash_dirs, res |-> "Ok"]
    ELSE IF fail = 2 THEN [dirs |-> crash_dirs, res |-> "Err"]
    ELSE [dirs |-> MapInsert(crash_dirs, name,
                             [input |-> input, files |-> saved(fail)]),
          res |-> IF fail = 0 THEN "Ok" ELSE "Err"]

\* FuzzData::new: the crash directory is empty
InitCrashes ==
    /\ ExecutorFresh(0) /\ MutatorIdle /\ HarnessIdle /\ ReducerIdle
    /\ call = NoCall /\ generator = NotGenerating /\ greybox = NoHarness
    /\ \E h \in GenerateNames : crashes = [NoCrashes EXCEPT !.hash = h]

\* one call of report_crash
ReportCrash ==
    /\ DOMAIN crashes.hash # {} /\ crashes.count < MaxReports
    /\ \E input \in CrashWorkloads, fail \in Failures :
           LET name == crashes.hash[input]
               out == report_crash(crashes.dirs, name, input, fail)
           IN  crashes' =
                   [hash |-> crashes.hash,
                    dirs |-> out.dirs,
                    reported |-> IF out.res = "Ok"
                                 THEN crashes.reported \cup {input}
                                 ELSE crashes.reported,
                    count |-> crashes.count + 1,
                    last |-> [input |-> input, name |-> name,
                              existed |-> name \in DOMAIN crashes.dirs,
                              fail |-> fail, res |-> out.res]]
    /\ UNCHANGED <<executor_vars, mutator_vars, harness_vars, reducer_vars,
                   call, generator, greybox>>

NextCrashes == ReportCrash

SpecCrashes == InitCrashes /\ [][NextCrashes]_vars

\* C29 as stated: after any sequence of reports there is exactly one
\* directory per distinct workload that was reported
C29_OneDirPerWorkload ==
    Cardinality(DOMAIN crashes.dirs) = Cardinality(crashes.reported)

\* C29: the directory is named by a function of the workload; a report whose
\* directory exists writes and overwrites nothing and returns Ok unless the
\* existence check fails; a report adds at most the directory of its name and
\* every workload whose report returned Ok has the directory of its name
C29_Dedupes ==
    [][crashes' # crashes =>
           LET name == crashes'.last.name
           IN  /\ name = crashes.hash[crashes'.last.input]
               /\ name \in DOMAIN crashes.dirs =>
                      /\ crashes'.dirs = crashes.dirs
                      /\ crashes'.last.fail # 1 => crashes'.last.res = "Ok"
               /\ \A n \in DOMAIN crashes.dirs :
                      n \in DOMAIN crashes'.dirs /\ crashes'.dirs[n] = crashes.dirs[n]
               /\ DOMAIN crashes'.dirs \subseteq DOMAIN crashes.dirs \cup {name}
               /\ \A wl \in crashes'.reported :
                      crashes.hash[wl] \in DOMAIN crashes'.dirs]_vars

\* a workload was reported whose directory existed: Ok, nothing written
C29_Witness ==
    /\ crashes.count >= 2
    /\ crashes.last.existed /\ crashes.last.res = "Ok"

\* ------------------------------------------------- Fuzzer::run, counted ----
\* run is one thread that goes from step to step: a step that can be taken
\* is taken (fuzz_one is taken to return)
SpecFuzzerFair == SpecFuzzer /\ WF_vars(NextFuzzer)

\* the calls of fuzz_one made so far: those runs() is back from and the one
\* it is in
FuzzOneCalls ==
    fuzzer.iteration
        + (IF fuzzer.pc \in {"fuzz_one_ok", "fuzz_one_err", "detect_errors",
                             "do_objective"}
           THEN 1 ELSE 0)

\* C30: run(Some(count)) calls fuzz_one at most count times and then
\* returns; on return stats.executions is the number of fuzz_one calls that
\* returned Ok: the call that returned an error is not counted
C30_CountedRuns ==
    /\ [](fuzzer.test_count.tag = "Some" =>
              /\ FuzzOneCalls <= fuzzer.test_count.val
              /\ fuzzer.pc = "returned" =>
                     fuzzer.stats.executions
                         = fuzzer.iteration - observed.failed_in_row)
    /\ (fuzzer.pc = "loop" /\ fuzzer.test_count.tag = "Some")
           ~> fuzzer.pc = "returned"

\* run(Some(count)) has returned after calls that returned Ok and one that
\* returned an error
C30_Witness ==
    /\ fuzzer.pc = "returned" /\ fuzzer.test_count.tag = "Some"
    /\ fuzzer.stats.executions >= 1
    /\ observed.failed_in_row = 1
    /\ fuzzer.iteration = fuzzer.stats.executions + 1

\* ------------------------------------------ accidents and crash reports ----
\* the step just taken is a call of detect_errors on two traces that both
\* contain error rows
BothHaveErrors ==
    /\ fuzzer.pc = "detect_errors" /\ fuzzer'.pc # "detect_errors"
    /\ has_errors(observed.fst_trace) /\ has_errors(observed.snd_trace)

\* the crashes directory and stats.crashes are as they were
CrashesUntouched ==
    /\ fuzzer'.reports = fuzzer.reports
    /\ fuzzer'.stats.crashes = fuzzer.stats.crashes

\* C31: when both traces contain error rows detect_errors writes one report
\* to the accidents directory and returns true, do_objective is not run in
\* that iteration, nothing is written to the crashes directory and
\* stats.crashes is unchanged, also when the two traces differ
C31_AccidentExclusive ==
    [][BothHaveErrors =>
          /\ fuzzer'.accidents = fuzzer.accidents + 1
          /\ observed'.detect_errors.res = "true"
          /\ fuzzer'.pc # "do_objective"
          /\ CrashesUntouched]_vars

\* C31 as amended: when both traces contain error rows detect_errors calls
\* report_diff on the accidents directory; when that succeeds one report is
\* written there and true is returned, when it fails the error is returned;
\* in both cases do_objective is not run in that iteration, nothing is
\* written to the crashes directory and stats.crashes is unchanged, also
\* when the two traces differ
C31_AccidentOrError ==
    /\ [][BothHaveErrors =>
             LET d == observed'.detect_errors
             IN  /\ d.report = "Ok" =>
                        /\ fuzzer'.accidents = fuzzer.accidents + 1
                        /\ d.res = "true" /\ fuzzer'.pc = "fuzz_one_ok"
                 /\ d.report = "Err" =>
                        /\ fuzzer'.accidents = fuzzer.accidents
                        /\ d.res = "Err" /\ fuzzer'.pc = "fuzz_one_err"
                 /\ d.report \in {"Ok", "Err"}
                 /\ CrashesUntouched]_vars
    /\ [](fuzzer.pc = "do_objective" =>
              ~(has_errors(observed.fst_trace) /\ has_errors(observed.snd_trace)))
    /\ [][fuzzer.pc \in {"fuzz_one_ok", "fuzz_one_err"} =>
              fuzzer'.pc \in {"loop", "returned"} /\ CrashesUntouched]_vars

\* two traces that differ and both contain error rows were reported as an
\* accident, after an iteration that reported a crash
C31_Witness ==
    /\ fuzzer.pc = "fuzz_one_ok"
    /\ has_errors(observed.fst_trace) /\ has_errors(observed.snd_trace)
    /\ trace_differs(observed.fst_trace, observed.snd_trace)
    /\ observed.detect_errors = [report |-> "Ok", res |-> "true"]
    /\ fuzzer.accidents = 1 /\ fuzzer.reports = 1 /\ fuzzer.stats.crashes = 1

\* ------------------------------------------- reduce_by_hash, its loop ----
\* C32: reduce_by_hash ends without a panic for every input workload, the
\* empty one included, after at most |W| calls of mutator remove and at most
\* |W| harness runs: inside the loop index + 1 iterations are left of |W|
C32_ReduceTerminates ==
    reduction.triggers =>
        /\ reducer.result # "Panic"
        /\ reduction.tried <= Len(reduction.input)
        /\ reduction.runs <= Len(reduction.input)
        /\ reducer.pc = "loop" =>
               reducer.index + 1 + reduction.tried = Len(reduction.input)
        /\ reducer.pc \in {"loop", "done"}

\* C33: on a non-empty input every call remove(&workload, index) of
\* reduce_by_hash is made with 0 <= index < |workload|, whichever of the
\* earlier candidates were committed
C33_IndexInRange ==
    (reducer.pc = "loop" /\ Len(reduction.input) > 0) =>
        0 <= reducer.index /\ reducer.index < Len(reducer.workload)

\* the loop is about to call remove at index 0 on a workload of two
\* operations, after one of two earlier candidates was committed
C33_Witness ==
    /\ reducer.pc = "loop" /\ reducer.index = 0
    /\ reduction.tried = 2 /\ reduction.commits = 1
    /\ Len(reducer.workload) = 2

\* ---------------------------------------------------- greybox harness ----
\* number of calls of the harness closure followed
MaxHarnessRuns == 4

\* FileSystemMount::setup returning Ok: one more mount is in place at fs_dir
setup(g) == [g EXCEPT !.mounted = @ + 1, !.setup_ok = TRUE]

\* FileSystemMount::teardown returning Ok: the topmost mount is taken away
teardown(g) == [g EXCEPT !.mounted = IF @ > 0 THEN @ - 1 ELSE 0]

\* harness returns
HarnessReturns(g, result) == [g EXCEPT !.pc = "returned", !.result = result]

\* the fuzzer holds the closure of workload_harness and has not called it
InitHarness ==
    /\ ExecutorFresh(0) /\ MutatorIdle /\ HarnessIdle /\ ReducerIdle
    /\ call = NoCall /\ generator = NotGenerating /\ crashes = NoCrashes
    /\ greybox = [NoHarness EXCEPT !.pc = "idle"]

\* the closure is called: harness compiles the input
HarnessCompile ==
    /\ greybox.pc = "idle" /\ greybox.runs < MaxHarnessRuns
    /\ \E compiled \in {"Ok", "Err"} :
           LET g == [greybox EXCEPT !.setup_ok = FALSE, !.teardown_called = FALSE,
                                    !.output = "none", !.result = "none"]
           IN  greybox' = IF compiled = "Err" THEN HarnessReturns(g, "Err")
                          ELSE [g EXCEPT !.pc = "setup"]
    /\ UNCHANGED <<executor_vars, mutator_vars, harness_vars, reducer_vars,
                   call, generator, crashes>>

\* fs_mount.setup(&fs_dir)?
HarnessSetup ==
    /\ greybox.pc = "setup"
    /\ \E mounted \in {"Ok", "Err"} :
           greybox' = IF mounted = "Err" THEN HarnessReturns(greybox, "Err")
                      ELSE [setup(greybox) EXCEPT !.pc = "exec"]
    /\ UNCHANGED <<executor_vars, mutator_vars, harness_vars, reducer_vars,
                   call, generator, crashes>>

\* let output = exec.output()?: the test binary fails to start, or runs and
\* exits with status zero or not
HarnessExec ==
    /\ greybox.pc = "exec"
    /\ \E output \in {"Err", "success", "failure"} :
           greybox' = IF output = "Err"
                      THEN HarnessReturns([greybox EXCEPT !.output = output], "Err")
                      ELSE [greybox EXCEPT !.pc = "teardown", !.output = output]
    /\ UNCHANGED <<executor_vars, mutator_vars, harness_vars, reducer_vars,
                   call, generator, crashes>>

\* fs_mount.teardown(&fs_dir)? and the ExitKind made of the exit status
HarnessTeardown ==
    /\ greybox.pc = "teardown"
    /\ \E unmounted \in {"Ok", "Err"} :
           LET g == [greybox EXCEPT !.teardown_called = TRUE]
           IN  greybox' =
                   IF unmounted = "Err" THEN HarnessReturns(g, "Err")
                   ELSE HarnessReturns(teardown(g),
                                       IF g.output = "success" THEN "ExitKind::Ok"
                                       ELSE "ExitKind::Crash")
    /\ UNCHANGED <<executor_vars, mutator_vars, harness_vars, reducer_vars,
                   call, generator, crashes>>

\* the closure of workload_harness returns the ExitKind, Crash for an error,
\* and may be called again
HarnessReturn ==
    /\ greybox.pc = "returned"
    /\ greybox' = [greybox EXCEPT !.pc = "idle", !.runs = @ + 1,
                                  !.result = IF @ = "Err" THEN "ExitKind::Crash" ELSE @]
    /\ UNCHANGED <<executor_vars, mutator_vars, harness_vars, reducer_vars,
                   call, generator, crashes>>

NextHarness ==
    HarnessCompile \/ HarnessSetup \/ HarnessExec \/ HarnessTeardown \/ HarnessReturn

SpecHarness == InitHarness /\ [][NextHarness]_vars

\* C34: when harness returns after fs_mount.setup succeeded,
\* fs_mount.teardown was called, whether the test binary ran, failed to
\* start or exited non-zero
C34_MountPaired ==
    (greybox.pc = "returned" /\ greybox.setup_ok) => greybox.teardown_called

\* -------------------------------------------- PathName::split and join ----
\* PathName::is_root
is_root(path) == path = <<"/">>

\* PathName::is_valid
is_valid(path) ==
    ~(\/ path = <<>>
      \/ path[1] # "/"
      \/ (~is_root(path) /\ path[Len(path)] = "/"))

\* a Name of the data model: a String that is not empty and holds no '/'
IsName(name) == name # <<>> /\ \A i \in 1..Len(name) : name[i] # "/"

\* PathName::join
PathName_join(path, name) ==
    IF is_root(path) THEN <<"/">> \o name ELSE path \o <<"/">> \o name

\* what split returns; rfind('/').unwrap() panics on a string without '/'
NotSplit == [done |-> FALSE, panic |-> FALSE, parent |-> <<>>, name |-> <<>>]
SplitPanic == [done |-> TRUE, panic |-> TRUE, parent |-> <<>>, name |-> <<>>]
SplitInto(parent, name) ==
    [done |-> TRUE, panic |-> FALSE, parent |-> parent, name |-> name]

\* PathName::split
PathName_split(path) ==
    LET at == rfind(path)
        parent == SubSeq(path, 1, at - 1)
        name == SubSeq(path, at + 1, Len(path))
    IN  IF at = 0 THEN SplitPanic
        ELSE IF parent = <<>> THEN SplitInto(<<"/">>, name)
        ELSE SplitInto(parent, name)

\* the path names split and joined: every string up to MaxNameLen and two
\* longer ones, without and with an empty segment
SplitPathNames ==
    PathNames \cup {<<"/", "1", "/", "2", "/", "1">>, <<"/", "1", "/", "/", "2">>}

\* the strings given to join as names: every string of up to two characters
JoinNames == UNION {[1..n -> PathNameAlphabet] : n \in 0..2}

\* a path name is about to be split, or a path name and a name to be joined
InitSplit ==
    /\ OnlyCalls
    /\ \/ \E path \in SplitPathNames :
              call = [fn |-> "split", args |-> [path |-> path, name |-> <<>>],
                      result |-> NotSplit]
       \/ \E path \in SplitPathNames, name \in JoinNames :
              call = [fn |-> "join", args |-> [path |-> path, name |-> name],
                      result |-> NotSplit]

\* path.split() returns, or panics
Split ==
    /\ call.fn = "split" /\ call.result = NotSplit
    /\ call' = [call EXCEPT !.result = PathName_split(call.args.path)]
    /\ UNCHANGED not_call_vars

\* path.join(name).split() returns, or panics
JoinSplit ==
    /\ call.fn = "join" /\ call.result = NotSplit
    /\ call' = [call EXCEPT
                   !.result = PathName_split(PathName_join(call.args.path,
                                                           call.args.name))]
    /\ UNCHANGED not_call_vars

NextSplit == Split \/ JoinSplit

SpecSplit == InitSplit /\ [][NextSplit]_vars

\* C35: for every valid non-root p, split(p) returns (q, n) with n a Name, q
\* valid, q.join(n) = p and q.is_prefix_of(p); for every valid q and Name n,
\* q.join(n).split() = (q, n)
C35_SplitJoin ==
    call.result.done =>
        LET p == call.args.path
            q == call.result.parent
            n == call.result.name
        IN  /\ (call.fn = "split" /\ is_valid(p) /\ ~is_root(p)) =>
                   /\ ~call.result.panic
                   /\ IsName(n)
                   /\ is_valid(q)
                   /\ PathName_join(q, n) = p
                   /\ is_prefix_of(q, p)
            /\ (call.fn = "join" /\ is_valid(p) /\ IsName(call.args.name)) =>
                   /\ ~call.result.panic
                   /\ q = p /\ n = call.args.name

\* --------------------------------------------------------------- alive ----
\* the directories a set of directories holds as children
ChildDirs(e, ds) ==
    {e.dirs[d].children[n].idx :
        <<d, n>> \in {<<d, n>> \in ds \X UNION {DOMAIN e.dirs[d].children : d \in ds} :
                          /\ n \in DOMAIN e.dirs[d].children
                          /\ e.dirs[d].children[n].kind = "DIR"}}

\* the directories reachable from the root through children
RECURSIVE ReachableFrom(_, _, _)
ReachableFrom(e, ds, fuel) ==
    IF fuel = 0 THEN ds ELSE ReachableFrom(e, ds \cup ChildDirs(e, ds), fuel - 1)

Reachable(e) == ReachableFrom(e, {root_index}, VecLen(e.dirs))

\* the entries (directory, name) of reachable directories that hold the node
EntriesOf(e, node) ==
    {<<d, n>> \in Reachable(e) \X UNION {DOMAIN e.dirs[d].children : d \in Reachable(e)} :
        n \in DOMAIN e.dirs[d].children /\ e.dirs[d].children[n] = node}

\* how many times the list holds the node
Occurrences(list, node) == Cardinality({i \in 1..Len(list) : list[i] = node})

\* the nodes of the arenas
Nodes(e) == {DIR(d) : d \in DOMAIN e.dirs} \cup {FILE(f) : f \in DOMAIN e.files}

\* C36: alive() returns the root first and then exactly the nodes reachable
\* from the root through children: every reachable directory once, every
\* file once for each entry that links it, and no directory that a remove
\* has detached; on a fresh state it returns the root alone
C36_AliveReachable ==
    LET a == alive(self)
    IN  /\ a[1] = DIR(root_index)
        /\ \A node \in Nodes(self) \ {DIR(root_index)} :
               Occurrences(a, node) = Cardinality(EntriesOf(self, node))
        /\ \A d \in Reachable(self) : Occurrences(a, DIR(d)) = 1
        /\ \A i \in 1..Len(a) : a[i] \in Nodes(self)
        /\ \A d \in DOMAIN dirs :
               (d # root_index /\ dirs[d].parent = {}) => Occurrences(a, DIR(d)) = 0
        /\ self = new => a = <<DIR(root_index)>>

\* a file is listed twice, for the two entries that link it, one of them in
\* a directory below the root, and a directory that was removed is not listed
C36_Witness ==
    /\ ret.tag = "Ok"
    /\ \E f \in DOMAIN files : Occurrences(alive(self), FILE(f)) = 2
    /\ \E d \in Reachable(self) : d # root_index
    /\ \E d \in DOMAIN dirs : d # root_index /\ dirs[d].parent = {}

\* C37: after any calls of create, mkdir, hardlink and remove, with any
\* strings as paths, every key of every directory's children map is a Name:
\* not empty and without '/'
C37_KeysAreNames ==
    \A d \in DOMAIN dirs :
        \A name \in DOMAIN dirs[d].children :
            name # <<>> /\ \A i \in 1..Len(name) : name[i] # "/"

\* -------------------------------------------------- parent pointers ----
\* following parent from the directory reaches one with parent = None in at
\* most `steps` steps
RECURSIVE ParentChainEnds(_, _, _)
ParentChainEnds(e, idx, steps) ==
    \/ e.dirs[idx].parent = {}
    \/ /\ steps > 0
       /\ \A p \in e.dirs[idx].parent : ParentChainEnds(e, p, steps - 1)

\* C38: the parent pointers never form a cycle: from every directory of the
\* arena the parent chain reaches a directory with parent = none in at most
\* |dirs| steps, resolve_dir_path does not panic for any index of the arena,
\* and it returns "/" only for the root
C38_ParentsAcyclic ==
    \A d \in DOMAIN dirs :
        /\ ParentChainEnds(self, d, VecLen(dirs))
        /\ ~resolve_dir_path_panics(self, d, VecLen(dirs))
        /\ resolve_dir_path(self, d) = <<"/">> => d = root_index

\* ---------------------------------------------------- the event queue ----
\* the step just taken is the return of reset or of had_panic_event
CoreReturned == core.pc \in {"reset", "had"} /\ core'.pc = "idle"

\* C39: under every interleaving of the worker thread and the core, every
\* event sent is in the queue or was received by one call of reset or
\* had_panic_event; had_panic_event returns true iff it received at least one
\* event; with an empty queue both calls can return at once; and when the
\* worker has ended a call returns an error, after the queue was emptied
C39_QueueKeepsEvents ==
    /\ [](/\ events.sent = events.consumed + rx.queue
          /\ (core.pc \in {"reset", "had"} /\ rx.queue = 0) =>
                 ENABLED (ResetEmpty \/ ResetDisconnected \/ HadEmpty \/ HadDisconnected))
    /\ [][/\ events'.consumed - events.consumed = core'.taken - core.taken
               \/ (core.pc = "idle" /\ core'.taken = 0 /\ events' = events)
          /\ (events'.consumed # events.consumed) =>
                 /\ events'.consumed = events.consumed + 1
                 /\ rx'.queue = rx.queue - 1
                 /\ core.pc \in {"reset", "had"}
          /\ CoreReturned =>
                 /\ rx.queue = 0 /\ rx' = rx
                 /\ (core.pc = "had" /\ core'.result.tag = "Ok") =>
                        (core'.result.val <=> core.taken > 0)
                 /\ ~rx.connected <=> core'.result.tag = "Err"
                 /\ rx.connected <=> core'.result.tag = "Ok"]_vars

\* the worker sent two events and ended; had_panic_event received both and
\* returned an error, the queue being empty
C39_Witness ==
    /\ core.pc = "idle" /\ core.result.of = "had" /\ core.result.tag = "Err"
    /\ core.taken = 2 /\ events.sent = 2 /\ events.consumed = 2
    /\ rx.queue = 0 /\ ~rx.connected
====
